---- MODULE Spec2Model ----
(***************************************************************************)
(* kubrun: a warm pool of workload+service pairs kept in a cluster and     *)
(* leased to test runs.  The model covers ServicePoolManager, ServicePool, *)
(* the object factory, the name sanitizer, the cluster calls of K8sClient  *)
(* and the expiry sweep.  Every cluster call is one atomic step; the       *)
(* steps of concurrent requests and of the sweep interleave freely.        *)
(***************************************************************************)
EXTENDS Integers, Sequences, FiniteSets, TLC

\* ------------------------------------------------------------------ bounds

\* concurrent request handlers (HTTP handler invocations in flight)
NumTasks == 2
\* supply of fresh uids: the total number of spawns in one behaviour
MaxUid == 2
\* the clock does not go beyond MaxTime ticks: a lease of one tick runs out
\* within the behaviour, the hour of an idle pair does not (the behaviours
\* of RaceSpec and LiveSpec go on until it has)
MaxTime == 1
\* the number of requests served in one behaviour
MaxOps == 2
\* the number of sweeps the expiry worker starts in one behaviour
MaxSweeps == 1
\* the number of cluster calls that fail in one behaviour
MaxFails == 1

\* the same bounds of the behaviours in which one client sends the
\* requests and runs the sweeps one at a time, each after the last has
\* returned
SerialMaxUid == 3
\* the serial behaviours happen within one tick: a lease of one tick taken
\* at time 0 ends in the second of time 0, so the sweep finds it due
SerialMaxTime == 0
SerialMaxOps == 3
SerialMaxSweeps == 1
SerialMaxFails == 1

\* the same bounds of the behaviours that follow the process through its
\* life: one client, one pool, several ticks of the expiry worker, and a
\* stop of the process (the context is cancelled) once LifeStopAfter
\* requests were served, after which it may be started again
LifeMaxUid == 4
\* within one tick, as the serial behaviours
LifeMaxTime == 0
LifeMaxOps == 3
LifeMaxSweeps == 2
LifeMaxFails == 1
LifeStopAfter == 1

\* the same bounds of the behaviours that are one spawn each, for an input
\* whose pool id, component type and container name are any strings of up
\* to NameMaxLen characters of NameAlphabet
NameMaxLen == 2
NameMaxUid == 1
NameMaxTime == 0

\* the same bounds of the behaviours in which the expiry worker runs on
\* for ever (its sweeps are counted up to LiveMaxSweeps and no further),
\* with one client of one pool
LiveMaxUid == 2
LiveMaxTime == 2
LiveMaxOps == 2
LiveMaxSweeps == 1
LiveMaxFails == 1

\* the same bounds of the behaviours in which claims and extensions of one
\* second race with one sweep, on a clock that reaches the hour of an idle
\* pair
RaceMaxUid == 2
RaceMaxTime == 2
RaceMaxOps == 2
RaceMaxSweeps == 1
\* RunInput.ExpireAfter and ExtendInput.Duration of these behaviours, in
\* ticks: one second
RaceDuration == 2

\* clock ticks per second: time.Now() is finer than the one-second
\* resolution of RFC 3339 timestamps
TicksPerSecond == 2
\* time.Hour, the lifetime the factory gives a fresh idle pair (in ticks,
\* scaled down so that the sweep meets expired objects within MaxTime)
Hour == 2

Tasks == 1..NumTasks
Sweeper == 0

\* the environment of the process, fixed for a behaviour: how its clients
\* send their requests (serial: one at a time; else concurrently), which
\* ids and durations they send, and the bounds of the behaviour
VARIABLE env

UIDs == 1..env.maxUid

\* ----------------------------------------------------------------- strings
\* A string is a sequence of one-character strings.

LowerOf(c) ==
    CASE c = "A" -> "a"
      [] c = "P" -> "p"
      [] c = "T" -> "t"
      [] OTHER -> c

\* strings.ToLower
ToLower(s) == [i \in 1..Len(s) |-> LowerOf(s[i])]

\* the characters the class [-a-z0-9] of nonAlphanumericRegex accepts
NameChars ==
    {"-", "a", "b", "c", "d", "e", "f", "g", "h", "i", "j", "k", "l", "m",
     "n", "o", "p", "q", "r", "s", "t", "u", "v", "w", "x", "y", "z",
     "0", "1", "2", "3", "4", "5", "6", "7", "8", "9"}

\* strings.Join(strs, "-")
RECURSIVE Join(_)
Join(strs) ==
    IF strs = <<>> THEN <<>>
    ELSE IF Len(strs) = 1 THEN strs[1]
    ELSE strs[1] \o <<"-">> \o Join(Tail(strs))

\* nonAlphanumericRegex.ReplaceAllString(str, "-"): every maximal run of
\* characters outside [-a-z0-9] becomes one "-"
RECURSIVE ReplaceAllString(_, _)
ReplaceAllString(s, inRun) ==
    IF s = <<>> THEN <<>>
    ELSE IF Head(s) \in NameChars
         THEN <<Head(s)>> \o ReplaceAllString(Tail(s), FALSE)
         ELSE (IF inRun THEN <<>> ELSE <<"-">>) \o ReplaceAllString(Tail(s), TRUE)

\* a sanitizer that joins and lowers, and replaces nothing
K8sNameStringJoinOnly(strs) == ToLower(Join(strs))

\* K8sNameString: join, lower, replace; each stage is computed once
K8sNameString(strs) ==
    CHOOSE r \in {ReplaceAllString(l, FALSE) :
                    l \in {ToLower(j) : j \in {Join(s) : s \in {strs}}}} : TRUE

\* the label and annotation keys
LabelPoolId == "kubrun/pool-id"
LabelTestId == "kubrun/test-id"
LabelComponentType == "kubrun/component-type"
LabelComponentName == "kubrun/component-name"
LabelContainerName == "kubrun/container-name"
LableIdle == "kubrun/idle"
LableUid == "kubrun/uid"
AnnotationComponentType == "kubrun/component-type"
AnnotationContainerName == "kubrun/container-name"
AnnotationExpireAfter == "kubrun/expire-after"

true == <<"t", "r", "u", "e">>
redis == <<"r", "e", "d", "i", "s">>
nope == <<"n", "o", "p", "e">>
main == <<"m", "a", "i", "n">>

\* a catalog that also knows the type the built-in one lacks
specsWithNope == {redis, nope}

\* the component types of the built-in catalog (its keys; only the keys
\* decide what WarmUp does)
specs == {redis}

\* uuid.New().NewV4()[0:8]: the text of a fresh uid
UidString(u) == << <<"0", "1", "2", "3", "4", "5", "6", "7", "8", "9">>[u + 1] >>

\* ------------------------------------------------------------------- time

\* Time.Format(time.RFC3339): the instant cut to whole seconds
FormatRFC3339(t) == t - (t % TicksPerSecond)

\* time.Parse(time.RFC3339, v) of an annotation written by FormatRFC3339
ParseRFC3339(v) == v

\* ------------------------------------------------------- request inputs

\* concurrent clients of one pool; one test id is changed by the sanitizer
ConcurrentEnv ==
    [serial |-> FALSE,
     poolIds |-> {<<"p">>},
     testIds |-> {<<"t">>, <<"T">>},
     durations |-> {1},
     maxUid |-> MaxUid, maxTime |-> MaxTime, maxOps |-> MaxOps,
     maxSweeps |-> MaxSweeps, maxFails |-> MaxFails,
     stopAfter |-> MaxOps, trace |-> FALSE, endless |-> FALSE]

\* one client at a time, of three pools; one pool id is changed by the
\* sanitizer (into that of another pool)
SerialEnv ==
    [serial |-> TRUE,
     poolIds |-> {<<"p">>, <<"q">>, <<"P">>},
     testIds |-> {<<"t">>, <<"s">>},
     durations |-> {1},
     maxUid |-> SerialMaxUid, maxTime |-> SerialMaxTime, maxOps |-> SerialMaxOps,
     maxSweeps |-> SerialMaxSweeps, maxFails |-> SerialMaxFails,
     stopAfter |-> SerialMaxOps, trace |-> FALSE, endless |-> FALSE]

\* one client at a time, of one pool, with canonical ids; the process may
\* be stopped after its first request and started again; res.done keeps
\* the trail of what the client has seen
LifeEnv ==
    [serial |-> TRUE,
     poolIds |-> {<<"p">>},
     testIds |-> {<<"t">>},
     durations |-> {1},
     maxUid |-> LifeMaxUid, maxTime |-> LifeMaxTime, maxOps |-> LifeMaxOps,
     maxSweeps |-> LifeMaxSweeps, maxFails |-> LifeMaxFails,
     stopAfter |-> LifeStopAfter, trace |-> TRUE, endless |-> FALSE]

\* one client at a time, of one pool, and a worker that is never stopped:
\* the ticker goes on sending ticks
LiveEnv ==
    [serial |-> TRUE,
     poolIds |-> {<<"p">>},
     testIds |-> {<<"t">>},
     durations |-> {1},
     maxUid |-> LiveMaxUid, maxTime |-> LiveMaxTime, maxOps |-> LiveMaxOps,
     maxSweeps |-> LiveMaxSweeps, maxFails |-> LiveMaxFails,
     stopAfter |-> LiveMaxOps, trace |-> FALSE, endless |-> TRUE]

\* concurrent clients of one pool that claim and extend for one second, and
\* a cluster whose calls do not fail
RaceEnv ==
    [serial |-> FALSE,
     poolIds |-> {<<"p">>},
     testIds |-> {<<"t">>},
     durations |-> {RaceDuration},
     maxUid |-> RaceMaxUid, maxTime |-> RaceMaxTime, maxOps |-> RaceMaxOps,
     maxSweeps |-> RaceMaxSweeps, maxFails |-> 0,
     stopAfter |-> RaceMaxOps, trace |-> FALSE, endless |-> FALSE]

\* an upper-case letter, a lower-case letter, a digit, the hyphen, and two
\* characters outside the class of the sanitizer
NameAlphabet == {"A", "z", "0", "-", "_"}
NameStrings == UNION {[1..k -> NameAlphabet] : k \in 1..NameMaxLen}

\* one spawn and nothing else
NameEnv ==
    [serial |-> TRUE,
     poolIds |-> NameStrings,
     testIds |-> {<<"t">>},
     durations |-> {1},
     maxUid |-> NameMaxUid, maxTime |-> NameMaxTime, maxOps |-> 1,
     maxSweeps |-> 0, maxFails |-> 0,
     stopAfter |-> 1, trace |-> FALSE, endless |-> FALSE]

\* pool ids and test ids as clients send them: canonical ones, and a test
\* id that the sanitizer changes
PoolIds == env.poolIds
TestIds == env.testIds
ComponentNames == {<<"c">>}
\* RunInput.ExpireAfter and ExtendInput.Duration, in ticks
Durations == env.durations
\* WarmUpInput.Components
ComponentMaps == {(redis :> 2), (redis :> 1) @@ (nope :> 1)}

NoReq ==
    [op |-> "none", poolId |-> <<>>, testId |-> <<>>, componentType |-> <<>>,
     componentName |-> <<>>, containerName |-> <<>>, expireAfter |-> 0,
     components |-> <<>>]

\* POST /run
RunInputs ==
    {[NoReq EXCEPT !.op = "run", !.poolId = p, !.testId = ti,
                   !.componentType = redis, !.componentName = cn,
                   !.containerName = main, !.expireAfter = d] :
        p \in PoolIds, ti \in TestIds, cn \in ComponentNames, d \in Durations}

\* POST /stop
StopInputs ==
    {[NoReq EXCEPT !.op = "stop", !.poolId = p, !.testId = ti] :
        p \in PoolIds, ti \in TestIds}

\* POST /pool/shutdown
ShutdownInputs == {[NoReq EXCEPT !.op = "shutdown", !.poolId = p] : p \in PoolIds}

\* POST /pool/warmup
WarmUpInputs ==
    {[NoReq EXCEPT !.op = "warmup", !.poolId = p, !.components = c] :
        p \in PoolIds, c \in ComponentMaps}

\* ExtendInput; its Duration is kept in expireAfter
ExtendInputs ==
    {[NoReq EXCEPT !.op = "extend", !.poolId = p, !.testId = ti, !.expireAfter = d] :
        p \in PoolIds, ti \in TestIds, d \in Durations}

\* ------------------------------------------------------------ the factory

NoObj == [name |-> <<>>, labels |-> <<>>, annotations |-> <<>>, creationTimestamp |-> 0]

\* a factory that also labels the fresh object with the component name
FactoryLabelsNamed(uid, input) ==
    (LabelPoolId :> K8sNameString(<<input.poolId>>))
    @@ (LableUid :> UidString(uid))
    @@ (LabelComponentType :> K8sNameString(<<input.componentType>>))
    @@ (LabelComponentName :> K8sNameString(<<input.componentName>>))
    @@ (LabelContainerName :> K8sNameString(<<input.containerName>>))
    @@ (LableIdle :> true)

\* the labels CreateDeployment and CreateService give a fresh object
FactoryLabels(uid, input) ==
    (LabelPoolId :> K8sNameString(<<input.poolId>>))
    @@ (LableUid :> UidString(uid))
    @@ (LabelComponentType :> K8sNameString(<<input.componentType>>))
    @@ (LabelContainerName :> K8sNameString(<<input.containerName>>))
    @@ (LableIdle :> true)

\* a factory that sets no annotation
FactoryAnnotationsNone(input, t) == <<>>

\* the annotations of a fresh object, built at time t
FactoryAnnotations(input, t) ==
    (AnnotationComponentType :> input.componentType)
    @@ (AnnotationContainerName :> input.containerName)
    @@ (AnnotationExpireAfter :> FormatRFC3339(t + Hour))

\* the object name of a fresh workload
DeploymentName(uid, input) ==
    K8sNameString(<< <<"p">>, input.poolId, UidString(uid),
                     input.componentType, input.containerName >>)

\* a service name that also holds the component name
ServiceNameWithComponent(uid, input) ==
    K8sNameString(<< <<"p">>, input.poolId, UidString(uid),
                     input.componentType, input.componentName, input.containerName >>)

\* a service name with a prefix of its own
ServiceNamePrefixed(uid, input) ==
    K8sNameString(<< <<"s">>, input.poolId, UidString(uid),
                     input.componentType, input.containerName >>)

\* the object name of the service of a fresh workload
ServiceName(uid, input) ==
    K8sNameString(<< <<"p">>, input.poolId, UidString(uid),
                     input.componentType, input.containerName >>)

\* ApplicationFactory.CreateDeployment, at time t
CreateDeploymentObject(uid, input, t) ==
    [name |-> DeploymentName(uid, input),
     labels |-> FactoryLabels(uid, input),
     annotations |-> FactoryAnnotations(input, t),
     creationTimestamp |-> 0]

\* ApplicationFactory.CreateService, at time t
CreateServiceObject(uid, input, t) ==
    [name |-> ServiceName(uid, input),
     labels |-> FactoryLabels(uid, input),
     annotations |-> FactoryAnnotations(input, t),
     creationTimestamp |-> 0]

\* ------------------------------------------------------------ the cluster
\* A collection of the cluster (deployments, services) is a function from
\* the uids in use to the objects.  Object names contain the uid, so a
\* name stands for exactly one key.

\* labels.SelectorFromSet(set): equality on every key of the selector
Matches(obj, selector) ==
    \A k \in DOMAIN selector :
        k \in DOMAIN obj.labels /\ obj.labels[k] = selector[k]

\* the objects of a collection that match the selector, in key order
RECURSIVE ListFrom(_, _, _)
ListFrom(objects, selector, u) ==
    IF u > env.maxUid THEN <<>>
    ELSE (IF u \in DOMAIN objects /\ Matches(objects[u], selector)
          THEN <<objects[u]>> ELSE <<>>)
         \o ListFrom(objects, selector, u + 1)

List(objects, selector) == ListFrom(objects, selector, 1)

HasName(objects, name) == \E u \in DOMAIN objects : objects[u].name = name

KeyOfName(objects, name) == CHOOSE u \in DOMAIN objects : objects[u].name = name

\* one operation of a JSON Patch document (RFC 6902) on a member of
\* /metadata/labels or /metadata/annotations: "remove" and "replace" need
\* the member to exist, "add" sets it whether it exists or not
PatchOp(op, field, key, value) == [op |-> op, field |-> field, key |-> key, value |-> value]

OpApplies(obj, o) ==
    LET m == IF o.field = "labels" THEN obj.labels ELSE obj.annotations
    IN  o.op = "add" \/ o.key \in DOMAIN m

ApplyOp(obj, o) ==
    LET m  == IF o.field = "labels" THEN obj.labels ELSE obj.annotations
        m2 == IF o.op = "remove"
              THEN [k \in DOMAIN m \ {o.key} |-> m[k]]
              ELSE [k \in DOMAIN m \cup {o.key} |-> IF k = o.key THEN o.value ELSE m[k]]
    IN  IF o.field = "labels" THEN [obj EXCEPT !.labels = m2]
        ELSE [obj EXCEPT !.annotations = m2]

\* the whole document: the operations in order, all of them or none
RECURSIVE PatchApplies(_, _)
PatchApplies(obj, ops) ==
    IF ops = <<>> THEN TRUE
    ELSE OpApplies(obj, Head(ops)) /\ PatchApplies(ApplyOp(obj, Head(ops)), Tail(ops))

RECURSIVE ApplyPatch(_, _)
ApplyPatch(obj, ops) ==
    IF ops = <<>> THEN obj ELSE ApplyPatch(ApplyOp(obj, Head(ops)), Tail(ops))

\* ------------------------------------------------------------ ServicePool

\* a comparison that puts the newest workload first
SortCmpNewest(a, b) == IF a.creationTimestamp > b.creationTimestamp THEN -1 ELSE 1

\* the comparison ClaimService sorts with
SortCmp(a, b) == IF a.creationTimestamp < b.creationTimestamp THEN -1 ELSE 1

\* slices.SortFunc on a short slice: insertion sort
RECURSIVE SiftDown(_, _)
SiftDown(s, j) ==
    IF j > 1 /\ SortCmp(s[j], s[j - 1]) < 0
    THEN SiftDown([s EXCEPT ![j] = s[j - 1], ![j - 1] = s[j]], j - 1)
    ELSE s

RECURSIVE SortFrom(_, _)
SortFrom(s, i) == IF i > Len(s) THEN s ELSE SortFrom(SiftDown(s, i), i + 1)

SortFunc(s) == SortFrom(s, 2)

\* the selector ClaimService lists idle workloads with
ClaimLabels(id, input) ==
    (LabelPoolId :> id)
    @@ (LabelComponentType :> input.componentType)
    @@ (LabelContainerName :> input.containerName)
    @@ (LableIdle :> true)

\* a claim patch that leaves the idle label in place
ClaimOpsKeepIdle(input, expireAfter) ==
    << PatchOp("add", "labels", LabelTestId, input.testId),
       PatchOp("add", "labels", LabelComponentName, input.componentName),
       PatchOp("add", "annotations", AnnotationExpireAfter, expireAfter) >>

\* a claim patch that does not write the component name
ClaimOpsNoComponentName(input, expireAfter) ==
    << PatchOp("remove", "labels", LableIdle, <<>>),
       PatchOp("add", "labels", LabelTestId, input.testId),
       PatchOp("add", "annotations", AnnotationExpireAfter, expireAfter) >>

\* the patch of claimDeployment
ClaimOps(input, expireAfter) ==
    << PatchOp("remove", "labels", LableIdle, <<>>),
       PatchOp("add", "labels", LabelTestId, input.testId),
       PatchOp("add", "labels", LabelComponentName, input.componentName),
       PatchOp("add", "annotations", AnnotationExpireAfter, expireAfter) >>

\* the patch of ExtendServices
ExtendOps(expireAfter) ==
    << PatchOp("replace", "annotations", AnnotationExpireAfter, expireAfter) >>

\* a selector that leaves out the test id
GetLabelsPoolOnly(input) ==
    (LabelPoolId :> K8sNameString(<<input.poolId>>))

\* StopInput.GetLabels and ExtendInput.GetLabels
GetLabels(input) ==
    (LabelPoolId :> K8sNameString(<<input.poolId>>))
    @@ (LabelTestId :> K8sNameString(<<input.testId>>))

\* the selector of Shutdown
ShutdownLabels(id) == (LabelPoolId :> id)

\* the selector the sweep looks for the services of a registered pool with
PruneLabels(poolId) == (LabelPoolId :> poolId)

\* a sweep with the comparison turned around: it passes over what is due
SweepSkipsInverted(o, t) ==
    \/ AnnotationExpireAfter \notin DOMAIN o.annotations
    \/ ParseRFC3339(o.annotations[AnnotationExpireAfter]) <= t

\* a sweep that also passes over an object whose deadline is just t
SweepSkipsAtDeadline(o, t) ==
    \/ AnnotationExpireAfter \notin DOMAIN o.annotations
    \/ ParseRFC3339(o.annotations[AnnotationExpireAfter]) >= t

\* expireObjects: whether the sweep, at time t, passes over a listed object
\* (no expire-after annotation, or one that is after t)
SweepSkips(o, t) ==
    \/ AnnotationExpireAfter \notin DOMAIN o.annotations
    \/ ParseRFC3339(o.annotations[AnnotationExpireAfter]) > t

\* ------------------------------------------------------------------ state

VARIABLES
    now,          \* the clock, in ticks
    deployments,  \* the workloads of the cluster
    services,     \* the services of the cluster
    freeUids,     \* the uids no spawn has drawn yet
    pools,        \* ServicePoolManager.pools: pool id -> ServicePool
    poolObjs,     \* the ServicePool objects on the heap: their id and lck
    mgrLck,       \* ServicePoolManager.lck: -1 when free, else its holder
    ops,          \* the number of requests that have arrived
    sweeps,       \* the number of sweeps that have started
    fails,        \* the number of cluster calls that have failed
    pc,           \* where each request handler stands
    req,          \* the request the handler serves
    pool,         \* the ServicePool getPool gave the handler, 0 when none
    loc,          \* the local variables of the handler
    res,          \* the handler's last operation and how it ended
    spc,          \* where the expiry worker stands
    sloc,         \* the local variables of the sweep
    handed,       \* how many successful claims returned each pair
    patched,      \* how many claims patched each workload
    leases,       \* the {pool id, test id} of the claims that succeeded
    reaped,       \* the workloads the sweep deleted, having listed them idle
    origin        \* uid -> the pool id the pair was spawned for

vars ==
    << now, deployments, services, freeUids, pools, poolObjs, mgrLck, ops,
       sweeps, fails, pc, req, pool, loc, res, spc, sloc, handed, patched, leases,
       reaped, origin, env >>

cluster == << deployments, services, freeUids >>
registry == << pools, poolObjs, mgrLck >>
sweeper == << spc, sloc >>
history == << handed, patched, leases, reaped, origin >>
counters == << ops, sweeps, fails, env >>

NoLoc ==
    [objs |-> <<>>, dep |-> NoObj, svc |-> NoObj, expireAfter |-> 0, uid |-> 0,
     labels |-> <<>>, todo |-> {}, cur |-> <<>>, left |-> 0, after |-> FALSE,
     before |-> <<>>]
\* res.shut: the pool ids this handler has shut down without error and
\* has completed no operation on since
\* res.done: when the environment keeps a trail, the operations this handler
\* has completed, in order, and the restarts of the process
NoRes == [op |-> "none", status |-> "none", poolId |-> <<>>, shut |-> {}, done |-> <<>>]
NoSloc == [objs |-> <<>>, poolIds |-> {}, due |-> [deployments |-> {}, services |-> {}]]

PoolObjIds == 1..(Cardinality(PoolIds) + NumTasks)

Init ==
    /\ env = ConcurrentEnv
    /\ now = 0
    /\ deployments = <<>>
    /\ services = <<>>
    /\ freeUids = UIDs
    /\ pools = <<>>
    /\ poolObjs = <<>>
    /\ mgrLck = -1
    /\ ops = 0
    /\ sweeps = 0
    /\ fails = 0
    /\ pc = [t \in Tasks |-> "idle"]
    /\ req = [t \in Tasks |-> NoReq]
    /\ pool = [t \in Tasks |-> 0]
    /\ loc = [t \in Tasks |-> NoLoc]
    /\ res = [t \in Tasks |-> NoRes]
    /\ spc = "run"
    /\ sloc = NoSloc
    /\ handed = [u \in UIDs |-> 0]
    /\ patched = [u \in UIDs |-> 0]
    /\ leases = {}
    /\ reaped = {}
    /\ origin = <<>>

\* ----------------------------------------------------- ServicePoolManager

\* Time passes between the steps.  Only a step that reads the clock tells
\* how much: it finds the clock at now or at any later instant
Clock == now..env.maxTime

\* NewServicePool: a ServicePool with its own, unlocked mutex
NewServicePool(id) == [id |-> id, lck |-> 0]

\* the heap after a reference is dropped: a ServicePool that neither the
\* registry nor a handler refers to is gone
Collect(objs, reg, refs) ==
    LET live == {reg[k] : k \in DOMAIN reg} \cup {refs[t] : t \in Tasks}
    IN  [o \in DOMAIN objs \cap live |-> objs[o]]

\* getPool and addPool, under the manager mutex: the registered pool of
\* poolId, or a new one that is registered
getPool(t, poolId) ==
    /\ mgrLck = -1
    /\ IF poolId \in DOMAIN pools
       THEN /\ pool' = [pool EXCEPT ![t] = pools[poolId]]
            /\ UNCHANGED << pools, poolObjs >>
       ELSE LET free == PoolObjIds \ DOMAIN poolObjs
                o == CHOOSE x \in free : \A y \in free : x <= y
            IN  /\ pools' = pools @@ (poolId :> o)
                /\ poolObjs' = poolObjs @@ (o :> NewServicePool(poolId))
                /\ pool' = [pool EXCEPT ![t] = o]
    /\ UNCHANGED mgrLck

\* the spawns a warm-up has still to start
RECURSIVE SumCounts(_, _)
SumCounts(components, types) ==
    IF types = {} THEN 0
    ELSE LET ty == CHOOSE x \in types : TRUE
         IN  (IF ty \in specs /\ components[ty] > 0 THEN components[ty] ELSE 0)
             + SumCounts(components, types \ {ty})

\* the fresh uids the handler has still to draw
Reserved(t) ==
    CASE req[t].op = "run" /\ pc[t] \in {"lock", "createDeployment"} -> 1
      [] req[t].op = "warmup" /\ pc[t] \in {"warmUp", "createDeployment"} ->
            loc[t].left + SumCounts(req[t].components, loc[t].todo)
      [] req[t].op = "warmup" /\ pc[t] = "createService" ->
            loc[t].left - 1 + SumCounts(req[t].components, loc[t].todo)
      [] OTHER -> 0

RECURSIVE SumReserved(_)
SumReserved(t) == IF t = 0 THEN 0 ELSE Reserved(t) + SumReserved(t - 1)

\* uids are left for n more spawns
CanSpawn(n) == Cardinality(freeUids) >= SumReserved(NumTasks) + n

\* a request arrives at handler t, the first idle one
Arrives(t) ==
    /\ pc[t] = "idle"
    /\ spc # "done"
    /\ \A t2 \in Tasks : t2 < t => pc[t2] # "idle"
    /\ env.serial => (spc \in {"run", "wait", "failed"} /\ \A t2 \in Tasks : pc[t2] = "idle")
    /\ ops < env.maxOps
    /\ ops' = ops + 1
    /\ UNCHANGED << sweeps, fails, env >>

\* a return that leaves the pool mutex locked
ReturnKeepsLock(t, status) ==
    LET unlocked == [o \in DOMAIN poolObjs |->
                        poolObjs[o]]
        refs == [pool EXCEPT ![t] = 0]
    IN  /\ pc' = [pc EXCEPT ![t] = "idle"]
        /\ res' = [res EXCEPT ![t] =
                [op |-> req[t].op, status |-> status, poolId |-> req[t].poolId,
                 shut |-> IF req[t].op = "shutdown" /\ status = "ok"
                          THEN res[t].shut \cup {req[t].poolId}
                          ELSE res[t].shut \ {req[t].poolId},
                 done |-> IF env.trace
                          THEN Append(res[t].done,
                                      [op |-> req[t].op, status |-> status,
                                       poolId |-> req[t].poolId,
                                       components |-> req[t].components])
                          ELSE res[t].done]]
        /\ req' = [req EXCEPT ![t] = NoReq]
        /\ loc' = [loc EXCEPT ![t] = NoLoc]
        /\ pool' = refs
        /\ poolObjs' = Collect(unlocked, pools, refs)
        /\ UNCHANGED << pools, mgrLck >>

\* an operation returns: the pool mutex it holds is released (the deferred
\* Unlock), and its reference to the pool is dropped
Return(t, status) ==
    LET unlocked == [o \in DOMAIN poolObjs |->
                        IF poolObjs[o].lck = t THEN [poolObjs[o] EXCEPT !.lck = 0]
                        ELSE poolObjs[o]]
        refs == [pool EXCEPT ![t] = 0]
    IN  /\ pc' = [pc EXCEPT ![t] = "idle"]
        /\ res' = [res EXCEPT ![t] =
                [op |-> req[t].op, status |-> status, poolId |-> req[t].poolId,
                 shut |-> IF req[t].op = "shutdown" /\ status = "ok"
                          THEN res[t].shut \cup {req[t].poolId}
                          ELSE res[t].shut \ {req[t].poolId},
                 done |-> IF env.trace
                          THEN Append(res[t].done,
                                      [op |-> req[t].op, status |-> status,
                                       poolId |-> req[t].poolId,
                                       components |-> req[t].components])
                          ELSE res[t].done]]
        /\ req' = [req EXCEPT ![t] = NoReq]
        /\ loc' = [loc EXCEPT ![t] = NoLoc]
        /\ pool' = refs
        /\ poolObjs' = Collect(unlocked, pools, refs)
        /\ UNCHANGED << pools, mgrLck >>


\* the idle pairs of a component type in a pool: workload and service of
\* one uid, both with idle=true
IdlePairs(deps, svcs, poolId, type) ==
    {u \in DOMAIN deps \cap DOMAIN svcs :
        /\ Matches(deps[u], (LabelPoolId :> K8sNameString(<<poolId>>))
                              @@ (LabelComponentType :> K8sNameString(<<type>>))
                              @@ (LableIdle :> true))
        /\ Matches(svcs[u], (LabelPoolId :> K8sNameString(<<poolId>>))
                              @@ (LabelComponentType :> K8sNameString(<<type>>))
                              @@ (LableIdle :> true))}

\* FetchService: a /run request arrives and getPool finds its pool.  For a
\* client that sends one request at a time, loc.before remembers how many
\* idle pairs of each known type the pool has
FetchService(t) ==
    /\ Arrives(t)
    /\ CanSpawn(1)
    /\ \E input \in RunInputs :
        /\ req' = [req EXCEPT ![t] = input]
        /\ loc' = [loc EXCEPT
                ![t].before = IF env.serial
                              THEN [ty \in specs |->
                                      Cardinality(IdlePairs(deployments, services, input.poolId, ty))]
                              ELSE <<>>]
        /\ getPool(t, input.poolId)
    /\ pc' = [pc EXCEPT ![t] = "lock"]
    /\ UNCHANGED << now, cluster, res, sweeper, history >>

\* a ClaimService that takes from the pool without the spawn before
ClaimLockNoSpawn(t) ==
    /\ pc[t] = "lock"
    /\ poolObjs[pool[t]].lck = 0
    /\ poolObjs' = [poolObjs EXCEPT ![pool[t]].lck = t]
    /\ pc' = [pc EXCEPT ![t] = "listDeployments"]
    /\ UNCHANGED << now, cluster, pools, mgrLck, counters, req, pool, loc, res, sweeper, history >>

\* ClaimService: c.lck.Lock()
ClaimLock(t) ==
    /\ pc[t] = "lock"
    /\ poolObjs[pool[t]].lck = 0
    /\ poolObjs' = [poolObjs EXCEPT ![pool[t]].lck = t]
    /\ pc' = [pc EXCEPT ![t] = "createDeployment"]
    /\ UNCHANGED << now, cluster, pools, mgrLck, counters, req, pool, loc, res, sweeper, history >>

\* what spawnDeployment is called with: the RunInput of a claim, the
\* WarmUpDeployment of a warm-up
SpawnInput(t) ==
    IF req[t].op = "run" THEN req[t]
    ELSE [req[t] EXCEPT !.componentType = loc[t].cur, !.containerName = main]

\* spawnDeployment, first call: CreateDeployment of a workload with a fresh
\* uid; the cluster stamps the creation time.  The uid is random; it
\* decides the order of the lists, on which no outcome of a serial
\* behaviour depends: there the uids are drawn in ascending order
SpawnCreateDeployment(t) ==
    /\ pc[t] = "createDeployment"
    /\ \E u \in freeUids, at \in Clock :
        /\ env.serial => \A v \in freeUids : u <= v
        /\ now' = at
        /\ freeUids' = freeUids \ {u}
        /\ deployments' = deployments @@
              (u :> [CreateDeploymentObject(u, SpawnInput(t), at)
                        EXCEPT !.creationTimestamp = FormatRFC3339(at)])
        /\ loc' = [loc EXCEPT ![t].uid = u]
        /\ origin' = origin @@ (u :> req[t].poolId)
    /\ pc' = [pc EXCEPT ![t] = "createService"]
    /\ UNCHANGED << services, registry, counters, req, pool, res, sweeper,
                    handed, patched, leases, reaped >>

\* spawnDeployment, second call: CreateService of the matching service;
\* then ClaimService goes on to list, WarmUp to its next replica
SpawnCreateService(t) ==
    /\ pc[t] = "createService"
    /\ \E at \in Clock :
        /\ now' = at
        /\ services' = services @@
              (loc[t].uid :> [CreateServiceObject(loc[t].uid, SpawnInput(t), at)
                                 EXCEPT !.creationTimestamp = FormatRFC3339(at)])
    /\ IF req[t].op = "run"
       THEN /\ pc' = [pc EXCEPT ![t] = "listDeployments"]
            /\ UNCHANGED loc
       ELSE /\ pc' = [pc EXCEPT ![t] = "warmUp"]
            /\ loc' = [loc EXCEPT ![t].left = @ - 1]
    /\ UNCHANGED << deployments, freeUids, registry, counters, req, pool, res, sweeper, history >>

\* ClaimService: ListDeployments of the idle workloads, the sort, and the
\* clock read of claimDeployment; an empty list makes deployments[0] panic
ClaimList(t) ==
    /\ pc[t] = "listDeployments"
    /\ LET listed == SortFunc(List(deployments, ClaimLabels(poolObjs[pool[t]].id, req[t])))
       IN  IF listed = <<>>
           THEN Return(t, "panic") /\ UNCHANGED now
           ELSE /\ \E at \in Clock :
                    /\ now' = at
                    /\ loc' = [loc EXCEPT ![t].objs = listed,
                                          ![t].expireAfter = FormatRFC3339(at + req[t].expireAfter)]
                /\ pc' = [pc EXCEPT ![t] = "patchDeployment"]
                /\ UNCHANGED << registry, req, pool, res >>
    /\ UNCHANGED << cluster, counters, sweeper, history >>

\* a claimDeployment that goes to the service without patching the workload
ClaimPatchDeploymentSkipped(t) ==
    /\ pc[t] = "patchDeployment"
    /\ loc' = [loc EXCEPT ![t].dep = loc[t].objs[1]]
    /\ pc' = [pc EXCEPT ![t] = "getService"]
    /\ UNCHANGED << now, cluster, registry, counters, req, pool, res, sweeper, history >>

\* claimDeployment: PatchDeployment of deployments[0]
ClaimPatchDeployment(t) ==
    /\ pc[t] = "patchDeployment"
    /\ LET name == loc[t].objs[1].name
           patch == ClaimOps(req[t], loc[t].expireAfter)
       IN  IF HasName(deployments, name)
              /\ PatchApplies(deployments[KeyOfName(deployments, name)], patch)
           THEN LET u == KeyOfName(deployments, name)
                    new == ApplyPatch(deployments[u], patch)
                IN  /\ deployments' = [deployments EXCEPT ![u] = new]
                    /\ loc' = [loc EXCEPT ![t].dep = new]
                    /\ pc' = [pc EXCEPT ![t] = "getService"]
                    /\ patched' = [patched EXCEPT ![u] = @ + 1]
                    /\ UNCHANGED << registry, req, pool, res >>
           ELSE /\ Return(t, "err")
                /\ UNCHANGED << deployments, patched >>
    /\ UNCHANGED << now, services, freeUids, counters, sweeper, handed, leases, reaped, origin >>

\* claimDeployment: GetService by the workload's name
ClaimGetService(t) ==
    /\ pc[t] = "getService"
    /\ LET name == loc[t].dep.name
       IN  IF HasName(services, name)
           THEN /\ loc' = [loc EXCEPT ![t].svc = services[KeyOfName(services, name)]]
                /\ pc' = [pc EXCEPT ![t] = "patchService"]
                /\ UNCHANGED << registry, req, pool, res >>
           ELSE Return(t, "err")
    /\ UNCHANGED << now, cluster, counters, sweeper, history >>

\* claimDeployment: PatchService with the same patch, and the return of
\* the patched service
ClaimPatchService(t) ==
    /\ pc[t] = "patchService"
    /\ LET name == loc[t].svc.name
           patch == ClaimOps(req[t], loc[t].expireAfter)
       IN  IF HasName(services, name)
              /\ PatchApplies(services[KeyOfName(services, name)], patch)
           THEN LET u == KeyOfName(services, name)
                IN  /\ services' = [services EXCEPT ![u] = ApplyPatch(services[u], patch)]
                    /\ Return(t, "ok")
                    /\ handed' = [handed EXCEPT ![u] = @ + 1]
                    /\ leases' = leases \cup {<<req[t].poolId, req[t].testId>>}
                    /\ UNCHANGED << patched, reaped, origin >>
           ELSE /\ Return(t, "err")
                /\ UNCHANGED << services, history >>
    /\ UNCHANGED << now, deployments, freeUids, counters, sweeper >>

\* WarmUpPool: a /pool/warmup request arrives.  loc.before remembers how
\* many idle pairs of each known type the pool has
WarmUpPool(t) ==
    /\ Arrives(t)
    /\ \E input \in WarmUpInputs :
        /\ CanSpawn(SumCounts(input.components, DOMAIN input.components))
        /\ req' = [req EXCEPT ![t] = input]
        /\ loc' = [loc EXCEPT
                ![t].todo = DOMAIN input.components,
                ![t].before = [ty \in specs |->
                    Cardinality(IdlePairs(deployments, services, input.poolId, ty))]]
        /\ getPool(t, input.poolId)
    /\ pc' = [pc EXCEPT ![t] = "warmUp"]
    /\ UNCHANGED << now, cluster, res, sweeper, history >>

\* a warm-up that spawns one replica of a type, whatever the count
WarmUpOnce(t) ==
    /\ pc[t] = "warmUp"
    /\ IF loc[t].left > 0
       THEN /\ pc' = [pc EXCEPT ![t] = "createDeployment"]
            /\ UNCHANGED << registry, req, pool, loc, res >>
       ELSE IF loc[t].todo = {}
       THEN Return(t, "ok")
       ELSE /\ \E ty \in loc[t].todo :
                loc' = [loc EXCEPT ![t].todo = @ \ {ty},
                                   ![t].cur = ty,
                                   ![t].left = IF ty \in specs /\ req[t].components[ty] > 0
                                               THEN 1 ELSE 0]
            /\ UNCHANGED << registry, pc, req, pool, res >>
    /\ UNCHANGED << now, cluster, counters, sweeper, history >>

\* WarmUp: the two loops, up to the next spawn.  The component types come
\* in the order of a map iteration; a type without a spec is skipped
WarmUp(t) ==
    /\ pc[t] = "warmUp"
    /\ IF loc[t].left > 0
       THEN /\ pc' = [pc EXCEPT ![t] = "createDeployment"]
            /\ UNCHANGED << registry, req, pool, loc, res >>
       ELSE IF loc[t].todo = {}
       THEN Return(t, "ok")
       ELSE /\ \E ty \in loc[t].todo :
                loc' = [loc EXCEPT ![t].todo = @ \ {ty},
                                   ![t].cur = ty,
                                   ![t].left = IF ty \in specs /\ req[t].components[ty] > 0
                                               THEN req[t].components[ty] ELSE 0]
            /\ UNCHANGED << registry, pc, req, pool, res >>
    /\ UNCHANGED << now, cluster, counters, sweeper, history >>

\* ReleaseServices (a /stop request) and ShutdownPool arrive
ReleaseServices(t) ==
    /\ Arrives(t)
    /\ \E input \in StopInputs \cup ShutdownInputs :
        /\ req' = [req EXCEPT ![t] = input]
        /\ loc' = [loc EXCEPT
                ![t].labels = IF input.op = "stop" THEN GetLabels(input)
                              ELSE ShutdownLabels(input.poolId),
                ![t].after = input.op = "stop" /\ <<input.poolId, input.testId>> \in leases]
        /\ getPool(t, input.poolId)
    /\ pc' = [pc EXCEPT ![t] = "relListDeployments"]
    /\ UNCHANGED << now, cluster, res, sweeper, history >>

\* ExtendServices arrives; the new deadline is computed before the lists
ExtendServices(t) ==
    /\ Arrives(t)
    /\ \E input \in ExtendInputs, at \in Clock :
        /\ now' = at
        /\ req' = [req EXCEPT ![t] = input]
        /\ loc' = [loc EXCEPT
                ![t].labels = GetLabels(input),
                ![t].expireAfter = FormatRFC3339(at + input.expireAfter),
                ![t].after = <<input.poolId, input.testId>> \in leases]
        /\ getPool(t, input.poolId)
    /\ pc' = [pc EXCEPT ![t] = "extListDeployments"]
    /\ UNCHANGED << cluster, res, sweeper, history >>

\* ReleaseServices and ExtendServices: ListDeployments, ListServices
ListStep(t) ==
    /\ pc[t] \in {"relListDeployments", "relListServices",
                  "extListDeployments", "extListServices"}
    /\ LET ofDeps == pc[t] \in {"relListDeployments", "extListDeployments"}
           rel == pc[t] \in {"relListDeployments", "relListServices"}
           listed == List(IF ofDeps THEN deployments ELSE services, loc[t].labels)
       IN  IF listed = <<>> /\ ~ofDeps
           THEN Return(t, "ok")
           ELSE /\ loc' = [loc EXCEPT ![t].objs = listed]
                /\ pc' = [pc EXCEPT ![t] =
                      IF listed = <<>> THEN (IF rel THEN "relListServices" ELSE "extListServices")
                      ELSE IF ofDeps THEN (IF rel THEN "relDeleteDeployment" ELSE "extPatchDeployment")
                      ELSE (IF rel THEN "relDeleteService" ELSE "extPatchService")]
                /\ UNCHANGED << registry, req, pool, res >>
    /\ UNCHANGED << now, cluster, counters, sweeper, history >>

\* where a loop over the listed objects goes after one of them
AfterObject(t) ==
    IF Len(loc[t].objs) > 1
    THEN /\ loc' = [loc EXCEPT ![t].objs = Tail(@)]
         /\ UNCHANGED << registry, pc, req, pool, res >>
    ELSE IF pc[t] \in {"relDeleteDeployment", "extPatchDeployment"}
    THEN /\ loc' = [loc EXCEPT ![t].objs = <<>>]
         /\ pc' = [pc EXCEPT ![t] = IF pc[t] = "relDeleteDeployment"
                                    THEN "relListServices" ELSE "extListServices"]
         /\ UNCHANGED << registry, req, pool, res >>
    ELSE Return(t, "ok")

\* ReleaseServices: DeleteDeployment, DeleteService of the next listed
\* object; deleting an object that is gone is an error
ReleaseDelete(t) ==
    /\ pc[t] \in {"relDeleteDeployment", "relDeleteService"}
    /\ LET ofDeps == pc[t] = "relDeleteDeployment"
           objects == IF ofDeps THEN deployments ELSE services
           name == Head(loc[t].objs).name
       IN  IF HasName(objects, name)
           THEN LET u == KeyOfName(objects, name)
                    left == [k \in DOMAIN objects \ {u} |-> objects[k]]
                IN  /\ IF ofDeps
                       THEN deployments' = left /\ UNCHANGED services
                       ELSE services' = left /\ UNCHANGED deployments
                    /\ AfterObject(t)
           ELSE /\ Return(t, "err")
                /\ UNCHANGED << deployments, services >>
    /\ UNCHANGED << now, freeUids, counters, sweeper, history >>

\* ExtendServices: PatchDeployment, PatchService of the next listed object
ExtendPatch(t) ==
    /\ pc[t] \in {"extPatchDeployment", "extPatchService"}
    /\ LET ofDeps == pc[t] = "extPatchDeployment"
           objects == IF ofDeps THEN deployments ELSE services
           name == Head(loc[t].objs).name
           patch == ExtendOps(loc[t].expireAfter)
       IN  IF HasName(objects, name)
              /\ PatchApplies(objects[KeyOfName(objects, name)], patch)
           THEN LET u == KeyOfName(objects, name)
                    new == [objects EXCEPT ![u] = ApplyPatch(objects[u], patch)]
                IN  /\ IF ofDeps
                       THEN deployments' = new /\ UNCHANGED services
                       ELSE services' = new /\ UNCHANGED deployments
                    /\ AfterObject(t)
           ELSE /\ Return(t, "err")
                /\ UNCHANGED << deployments, services >>
    /\ UNCHANGED << now, freeUids, counters, sweeper, history >>

\* a failure of the spawn of a claim after which the claim goes on to its
\* list
CallFailsClaimGoesOn(t) ==
    /\ pc[t] \notin {"idle", "lock", "warmUp"}
    /\ fails < env.maxFails
    /\ fails' = fails + 1
    /\ IF req[t].op = "run" /\ pc[t] \in {"createDeployment", "createService"}
       THEN /\ pc' = [pc EXCEPT ![t] = "listDeployments"]
            /\ UNCHANGED << registry, req, pool, loc, res >>
       ELSE Return(t, "err")
    /\ UNCHANGED << now, cluster, ops, sweeps, env, sweeper, history >>

\* a failure after which the caller removes the workload it had just made
CallFailsCleanUp(t) ==
    /\ pc[t] \notin {"idle", "lock", "warmUp"}
    /\ fails < env.maxFails
    /\ fails' = fails + 1
    /\ Return(t, "err")
    /\ deployments' = IF pc[t] = "createService"
                      THEN [u \in DOMAIN deployments \ {loc[t].uid} |-> deployments[u]]
                      ELSE deployments
    /\ UNCHANGED << now, services, freeUids, ops, sweeps, env, sweeper, history >>

\* a cluster call fails (the cluster is unreachable, the context is
\* cancelled): the operation returns the wrapped error
CallFails(t) ==
    /\ pc[t] \notin {"idle", "lock", "warmUp"}
    /\ fails < env.maxFails
    /\ fails' = fails + 1
    /\ Return(t, "err")
    /\ UNCHANGED << now, cluster, ops, sweeps, env, sweeper, history >>

\* the cluster answers a patch with a write conflict (409, the resource
\* version has moved) although the object is there and the same patch would
\* be accepted if it were sent again.  PatchDeployment and PatchService send
\* the patch once and wrap whatever error comes back; the operation returns
\* it, the conflict in its chain
PatchConflicts(t) ==
    /\ pc[t] \in {"patchDeployment", "patchService",
                  "extPatchDeployment", "extPatchService"}
    /\ LET ofDeps == pc[t] \in {"patchDeployment", "extPatchDeployment"}
           objects == IF ofDeps THEN deployments ELSE services
           name == IF pc[t] = "patchService" THEN loc[t].svc.name
                   ELSE Head(loc[t].objs).name
           patch == IF req[t].op = "run" THEN ClaimOps(req[t], loc[t].expireAfter)
                    ELSE ExtendOps(loc[t].expireAfter)
       IN  /\ HasName(objects, name)
           /\ PatchApplies(objects[KeyOfName(objects, name)], patch)
    /\ fails < env.maxFails
    /\ fails' = fails + 1
    /\ Return(t, "conflict")
    /\ UNCHANGED << now, cluster, ops, sweeps, env, sweeper, history >>

\* ------------------------------------------------------ the expiry worker

\* ExpireServices, under c.lck and after funk.Keys(c.pools): where the
\* sweep goes once the services are done, and with which pool ids
ToPrune ==
    IF pools = <<>>
    THEN /\ spc' = "wait"
         /\ sloc' = NoSloc
         /\ UNCHANGED mgrLck
    ELSE /\ spc' = "prune"
         /\ sloc' = [sloc EXCEPT !.objs = <<>>, !.poolIds = DOMAIN pools]
         /\ mgrLck' = Sweeper

\* the objects of a collection that are due at time t: their expire-after
\* is not after t
Due(objects, t) ==
    {objects[u] : u \in {v \in DOMAIN objects :
        /\ AnnotationExpireAfter \in DOMAIN objects[v].annotations
        /\ objects[v].annotations[AnnotationExpireAfter] <= t}}

\* a sweep that examines the workloads of the registered pools only
SweepStartRegistered ==
    /\ spc \in {"run", "wait", "failed"}
    /\ env.serial => \A t \in Tasks : pc[t] = "idle"
    /\ env.endless \/ sweeps < env.maxSweeps
    /\ sweeps' = IF sweeps < env.maxSweeps THEN sweeps + 1 ELSE sweeps
    /\ \E at \in Clock :
        /\ now' = at
        /\ LET Registered(o) ==
                   \E k \in DOMAIN pools : o.labels[LabelPoolId] = K8sNameString(<<k>>)
               listed == SelectSeq(List(deployments, <<>>), Registered)
           IN  /\ sloc' = [sloc EXCEPT
                              !.objs = listed,
                              !.due = [deployments |-> Due(deployments, at),
                                       services |-> Due(services, at)]]
               /\ spc' = IF listed # <<>> THEN "expireDeployment" ELSE "listServices"
    /\ UNCHANGED << cluster, registry, ops, fails, env, pc, req, pool, loc, res, history >>

\* a worker whose loop has ended when a sweep has returned an error
SweepStartUnlessFailed ==
    /\ spc \in {"run", "wait"}
    /\ env.serial => \A t \in Tasks : pc[t] = "idle"
    /\ env.endless \/ sweeps < env.maxSweeps
    /\ sweeps' = IF sweeps < env.maxSweeps THEN sweeps + 1 ELSE sweeps
    /\ \E at \in Clock :
        /\ now' = at
        /\ LET listed == List(deployments, <<>>)
           IN  /\ sloc' = [sloc EXCEPT
                              !.objs = listed,
                              !.due = [deployments |-> Due(deployments, at),
                                       services |-> Due(services, at)]]
               /\ spc' = IF listed # <<>> THEN "expireDeployment" ELSE "listServices"
    /\ UNCHANGED << cluster, registry, ops, fails, env, pc, req, pool, loc, res, history >>

\* a worker that begins a sweep on a tick whether or not one is running
SweepStartAnytime ==
    /\ spc # "done"
    /\ env.serial => \A t \in Tasks : pc[t] = "idle"
    /\ env.endless \/ sweeps < env.maxSweeps
    /\ sweeps' = IF sweeps < env.maxSweeps THEN sweeps + 1 ELSE sweeps
    /\ \E at \in Clock :
        /\ now' = at
        /\ LET listed == List(deployments, <<>>)
           IN  /\ sloc' = [sloc EXCEPT
                              !.objs = listed,
                              !.due = [deployments |-> Due(deployments, at),
                                       services |-> Due(services, at)]]
               /\ spc' = IF listed # <<>> THEN "expireDeployment" ELSE "listServices"
    /\ UNCHANGED << cluster, registry, ops, fails, env, pc, req, pool, loc, res, history >>

\* PoolModule.Run starts ExpireServices (at the start, then on a tick), and
\* expireObjects lists all workloads.  sloc.due remembers what was due
\* when the sweep started.  The sweeps are counted up to env.maxSweeps; a
\* worker that runs for ever goes on sweeping beyond that
SweepStart ==
    /\ spc \in {"run", "wait", "failed"}
    /\ env.serial => \A t \in Tasks : pc[t] = "idle"
    /\ env.endless \/ sweeps < env.maxSweeps
    /\ sweeps' = IF sweeps < env.maxSweeps THEN sweeps + 1 ELSE sweeps
    /\ \E at \in Clock :
        /\ now' = at
        /\ LET listed == List(deployments, <<>>)
           IN  /\ sloc' = [sloc EXCEPT
                              !.objs = listed,
                              !.due = [deployments |-> Due(deployments, at),
                                       services |-> Due(services, at)]]
               /\ spc' = IF listed # <<>> THEN "expireDeployment" ELSE "listServices"
    /\ UNCHANGED << cluster, registry, ops, fails, env, pc, req, pool, loc, res, history >>

\* expireObjects: the list of all services
SweepList ==
    /\ spc = "listServices"
    /\ LET listed == List(services, <<>>)
       IN  IF listed # <<>>
           THEN /\ sloc' = [sloc EXCEPT !.objs = listed]
                /\ spc' = "expireService"
                /\ UNCHANGED mgrLck
           ELSE ToPrune
    /\ UNCHANGED << now, cluster, pools, poolObjs, counters, pc, req, pool, loc, res, history >>

\* a sweep that goes on to the next object when a delete has failed
SweepExpireGoesOn ==
    /\ spc \in {"expireDeployment", "expireService"}
    /\ \E at \in Clock :
        LET ofDeps == spc = "expireDeployment"
            objects == IF ofDeps THEN deployments ELSE services
            o == Head(sloc.objs)
            Go == IF Len(sloc.objs) > 1
                  THEN /\ sloc' = [sloc EXCEPT !.objs = Tail(@)]
                       /\ UNCHANGED << spc, mgrLck >>
                  ELSE IF ofDeps
                  THEN /\ sloc' = [sloc EXCEPT !.objs = <<>>]
                       /\ spc' = "listServices"
                       /\ UNCHANGED mgrLck
                  ELSE ToPrune
        IN  /\ now' = at
            /\ IF SweepSkips(o, at)
               THEN /\ Go
                    /\ UNCHANGED << deployments, services, reaped >>
               ELSE IF HasName(objects, o.name)
               THEN LET u == KeyOfName(objects, o.name)
                        left == [k \in DOMAIN objects \ {u} |-> objects[k]]
                    IN  /\ IF ofDeps
                           THEN deployments' = left /\ UNCHANGED services
                           ELSE services' = left /\ UNCHANGED deployments
                        /\ reaped' = IF ofDeps /\ LableIdle \in DOMAIN o.labels
                                      THEN reaped \cup {u} ELSE reaped
                        /\ Go
               ELSE /\ Go
                    /\ UNCHANGED << deployments, services, reaped >>
    /\ UNCHANGED << freeUids, pools, poolObjs, counters, pc, req, pool, loc, res,
                    handed, patched, leases, origin >>

\* expireObjects: the next listed object is passed over, or deleted;
\* deleting an object that is gone is an error and ends the sweep
SweepExpire ==
    /\ spc \in {"expireDeployment", "expireService"}
    /\ \E at \in Clock :
        LET ofDeps == spc = "expireDeployment"
            objects == IF ofDeps THEN deployments ELSE services
            o == Head(sloc.objs)
            Go == IF Len(sloc.objs) > 1
                  THEN /\ sloc' = [sloc EXCEPT !.objs = Tail(@)]
                       /\ UNCHANGED << spc, mgrLck >>
                  ELSE IF ofDeps
                  THEN /\ sloc' = [sloc EXCEPT !.objs = <<>>]
                       /\ spc' = "listServices"
                       /\ UNCHANGED mgrLck
                  ELSE ToPrune
        IN  /\ now' = at
            /\ IF SweepSkips(o, at)
               THEN /\ Go
                    /\ UNCHANGED << deployments, services, reaped >>
               ELSE IF HasName(objects, o.name)
               THEN LET u == KeyOfName(objects, o.name)
                        left == [k \in DOMAIN objects \ {u} |-> objects[k]]
                    IN  /\ IF ofDeps
                           THEN deployments' = left /\ UNCHANGED services
                           ELSE services' = left /\ UNCHANGED deployments
                        /\ reaped' = IF ofDeps /\ LableIdle \in DOMAIN o.labels
                                      THEN reaped \cup {u} ELSE reaped
                        /\ Go
               ELSE /\ sloc' = NoSloc
                    /\ spc' = "failed"
                    /\ UNCHANGED << deployments, services, mgrLck, reaped >>
    /\ UNCHANGED << freeUids, pools, poolObjs, counters, pc, req, pool, loc, res,
                    handed, patched, leases, origin >>

\* ExpireServices: ListServices of one registered pool id; the pool is
\* taken from the registry when no service is listed.  After the last
\* pool id the deferred Unlock runs
SweepPrune ==
    /\ spc = "prune"
    /\ \E poolId \in sloc.poolIds :
        LET rest == sloc.poolIds \ {poolId}
            kept == IF List(services, PruneLabels(poolId)) # <<>> THEN pools
                    ELSE [k \in DOMAIN pools \ {poolId} |-> pools[k]]
        IN  /\ pools' = kept
            /\ poolObjs' = Collect(poolObjs, kept, pool)
            /\ IF rest = {}
               THEN spc' = "wait" /\ mgrLck' = -1 /\ sloc' = NoSloc
               ELSE sloc' = [sloc EXCEPT !.poolIds = rest] /\ UNCHANGED << spc, mgrLck >>
    /\ UNCHANGED << now, cluster, counters, pc, req, pool, loc, res, history >>

\* a cluster call of the sweep fails: ExpireServices returns the error
\* (releasing the manager mutex if it holds it) and Run logs it
SweepCallFails ==
    /\ spc \in {"listServices", "expireDeployment", "expireService", "prune"}
    /\ fails < env.maxFails
    /\ fails' = fails + 1
    /\ spc' = "failed"
    /\ sloc' = NoSloc
    /\ mgrLck' = -1
    /\ UNCHANGED << now, cluster, pools, poolObjs, ops, sweeps, env, pc, req, pool, loc, res, history >>

\* PoolModule.Run, case <-ctx.Done(): the kernel cancels the context when
\* the application stops, here once the client has been served
\* env.stopAfter requests and no request is in flight; Run returns nil
Cancel ==
    /\ spc \in {"wait", "failed"}
    /\ ops >= env.stopAfter
    /\ \A t \in Tasks : pc[t] = "idle"
    /\ spc' = "done"
    /\ UNCHANGED << now, cluster, registry, counters, pc, req, pool, loc, res, sloc, history >>

RestartMark == [op |-> "restart", status |-> "ok", poolId |-> <<>>, components |-> <<>>]

\* the stopped process is started again: ProvideServicePoolManager builds
\* a manager with an empty registry, and Run begins with a sweep.  The
\* cluster is as the stopped process left it
Restart ==
    /\ spc = "done"
    /\ pools' = <<>>
    /\ poolObjs' = <<>>
    /\ spc' = "run"
    /\ res' = IF env.trace
              THEN [res EXCEPT ![1].done = Append(@, RestartMark)]
              ELSE res
    /\ UNCHANGED << now, cluster, mgrLck, counters, pc, req, pool, loc, sloc, history >>

Next ==
    \/ \E t \in Tasks : FetchService(t)
    \/ \E t \in Tasks : ClaimLock(t)
    \/ \E t \in Tasks : SpawnCreateDeployment(t)
    \/ \E t \in Tasks : SpawnCreateService(t)
    \/ \E t \in Tasks : ClaimList(t)
    \/ \E t \in Tasks : ClaimPatchDeployment(t)
    \/ \E t \in Tasks : ClaimGetService(t)
    \/ \E t \in Tasks : ClaimPatchService(t)
    \/ \E t \in Tasks : WarmUpPool(t)
    \/ \E t \in Tasks : WarmUp(t)
    \/ \E t \in Tasks : ReleaseServices(t)
    \/ \E t \in Tasks : ExtendServices(t)
    \/ \E t \in Tasks : ListStep(t)
    \/ \E t \in Tasks : ReleaseDelete(t)
    \/ \E t \in Tasks : ExtendPatch(t)
    \/ \E t \in Tasks : CallFails(t)
    \/ \E t \in Tasks : PatchConflicts(t)
    \/ SweepStart
    \/ SweepList
    \/ SweepExpire
    \/ SweepPrune
    \/ SweepCallFails
    \/ Cancel
    \/ Restart

Spec == Init /\ [][Next]_vars

\* the behaviours of the process with one client that sends its requests,
\* and lets the sweep run, one after the other
SerialInit ==
    /\ env = SerialEnv
    /\ now = 0
    /\ deployments = <<>>
    /\ services = <<>>
    /\ freeUids = UIDs
    /\ pools = <<>>
    /\ poolObjs = <<>>
    /\ mgrLck = -1
    /\ ops = 0
    /\ sweeps = 0
    /\ fails = 0
    /\ pc = [t \in Tasks |-> "idle"]
    /\ req = [t \in Tasks |-> NoReq]
    /\ pool = [t \in Tasks |-> 0]
    /\ loc = [t \in Tasks |-> NoLoc]
    /\ res = [t \in Tasks |-> NoRes]
    /\ spc = "run"
    /\ sloc = NoSloc
    /\ handed = [u \in UIDs |-> 0]
    /\ patched = [u \in UIDs |-> 0]
    /\ leases = {}
    /\ reaped = {}
    /\ origin = <<>>

SerialSpec == SerialInit /\ [][Next]_vars

\* the behaviours of the process through stops and restarts, with one
\* client of one pool
LifeInit ==
    /\ env = LifeEnv
    /\ now = 0
    /\ deployments = <<>>
    /\ services = <<>>
    /\ freeUids = UIDs
    /\ pools = <<>>
    /\ poolObjs = <<>>
    /\ mgrLck = -1
    /\ ops = 0
    /\ sweeps = 0
    /\ fails = 0
    /\ pc = [t \in Tasks |-> "idle"]
    /\ req = [t \in Tasks |-> NoReq]
    /\ pool = [t \in Tasks |-> 0]
    /\ loc = [t \in Tasks |-> NoLoc]
    /\ res = [t \in Tasks |-> NoRes]
    /\ spc = "run"
    /\ sloc = NoSloc
    /\ handed = [u \in UIDs |-> 0]
    /\ patched = [u \in UIDs |-> 0]
    /\ leases = {}
    /\ reaped = {}
    /\ origin = <<>>

LifeSpec == LifeInit /\ [][Next]_vars

\* the spawn of any input: handler 1 is inside spawnDeployment with a
\* request whose strings are drawn from NameStrings, and goes through its
\* two creations
NameInit ==
    /\ env = NameEnv
    /\ now = 0
    /\ deployments = <<>>
    /\ services = <<>>
    /\ freeUids = UIDs
    /\ pools = <<>>
    /\ poolObjs = <<>>
    /\ mgrLck = -1
    /\ ops = 1
    /\ sweeps = 0
    /\ fails = 0
    /\ pc = [t \in Tasks |-> IF t = 1 THEN "createDeployment" ELSE "idle"]
    /\ \E a \in NameStrings, b \in NameStrings, c \in NameStrings :
          req = [t \in Tasks |->
                    IF t = 1
                    THEN [NoReq EXCEPT !.op = "run", !.poolId = a, !.testId = <<"t">>,
                                       !.componentType = b, !.componentName = <<"c">>,
                                       !.containerName = c, !.expireAfter = 1]
                    ELSE NoReq]
    /\ pool = [t \in Tasks |-> 0]
    /\ loc = [t \in Tasks |-> NoLoc]
    /\ res = [t \in Tasks |-> NoRes]
    /\ spc = "run"
    /\ sloc = NoSloc
    /\ handed = [u \in UIDs |-> 0]
    /\ patched = [u \in UIDs |-> 0]
    /\ leases = {}
    /\ reaped = {}
    /\ origin = <<>>

NameNext ==
    \/ \E t \in Tasks : SpawnCreateDeployment(t)
    \/ \E t \in Tasks : SpawnCreateService(t)

NameSpec == NameInit /\ [][NameNext]_vars

\* the behaviours of a process that is never stopped
LiveInit ==
    /\ env = LiveEnv
    /\ now = 0
    /\ deployments = <<>>
    /\ services = <<>>
    /\ freeUids = UIDs
    /\ pools = <<>>
    /\ poolObjs = <<>>
    /\ mgrLck = -1
    /\ ops = 0
    /\ sweeps = 0
    /\ fails = 0
    /\ pc = [t \in Tasks |-> "idle"]
    /\ req = [t \in Tasks |-> NoReq]
    /\ pool = [t \in Tasks |-> 0]
    /\ loc = [t \in Tasks |-> NoLoc]
    /\ res = [t \in Tasks |-> NoRes]
    /\ spc = "run"
    /\ sloc = NoSloc
    /\ handed = [u \in UIDs |-> 0]
    /\ patched = [u \in UIDs |-> 0]
    /\ leases = {}
    /\ reaped = {}
    /\ origin = <<>>

\* every step but the stop and the restart of the process
LiveNext ==
    \/ \E t \in Tasks : FetchService(t)
    \/ \E t \in Tasks : ClaimLock(t)
    \/ \E t \in Tasks : SpawnCreateDeployment(t)
    \/ \E t \in Tasks : SpawnCreateService(t)
    \/ \E t \in Tasks : ClaimList(t)
    \/ \E t \in Tasks : ClaimPatchDeployment(t)
    \/ \E t \in Tasks : ClaimGetService(t)
    \/ \E t \in Tasks : ClaimPatchService(t)
    \/ \E t \in Tasks : WarmUpPool(t)
    \/ \E t \in Tasks : WarmUp(t)
    \/ \E t \in Tasks : ReleaseServices(t)
    \/ \E t \in Tasks : ExtendServices(t)
    \/ \E t \in Tasks : ListStep(t)
    \/ \E t \in Tasks : ReleaseDelete(t)
    \/ \E t \in Tasks : ExtendPatch(t)
    \/ \E t \in Tasks : CallFails(t)
    \/ \E t \in Tasks : PatchConflicts(t)
    \/ SweepStart
    \/ SweepList
    \/ SweepExpire
    \/ SweepPrune
    \/ SweepCallFails

\* a step of a handler that is inside an operation: the call it is at
\* returns, without an error of the cluster
HandlerStep(t) ==
    \/ ClaimLock(t)
    \/ SpawnCreateDeployment(t)
    \/ SpawnCreateService(t)
    \/ ClaimList(t)
    \/ ClaimPatchDeployment(t)
    \/ ClaimGetService(t)
    \/ ClaimPatchService(t)
    \/ WarmUp(t)
    \/ ListStep(t)
    \/ ReleaseDelete(t)
    \/ ExtendPatch(t)

\* a tick that comes when the clock has moved on (the ticker sends one a
\* minute)
LaterTick == SweepStart /\ now' > now

\* the scheduling of the process: a handler inside an operation goes on, the
\* ticker goes on sending ticks, each later than the last while the clock
\* has not reached its bound, and a sweep that has begun goes on
LiveFairness ==
    /\ WF_vars(\E t \in Tasks : HandlerStep(t))
    /\ WF_vars(SweepStart)
    /\ SF_vars(LaterTick)
    /\ WF_vars(SweepList)
    /\ WF_vars(SweepExpire)
    /\ WF_vars(SweepPrune)

LiveSpec == LiveInit /\ [][LiveNext]_vars /\ LiveFairness

\* the behaviours in which claims and extensions race with a sweep
RaceInit ==
    /\ env = RaceEnv
    /\ now = 0
    /\ deployments = <<>>
    /\ services = <<>>
    /\ freeUids = UIDs
    /\ pools = <<>>
    /\ poolObjs = <<>>
    /\ mgrLck = -1
    /\ ops = 0
    /\ sweeps = 0
    /\ fails = 0
    /\ pc = [t \in Tasks |-> "idle"]
    /\ req = [t \in Tasks |-> NoReq]
    /\ pool = [t \in Tasks |-> 0]
    /\ loc = [t \in Tasks |-> NoLoc]
    /\ res = [t \in Tasks |-> NoRes]
    /\ spc = "run"
    /\ sloc = NoSloc
    /\ handed = [u \in UIDs |-> 0]
    /\ patched = [u \in UIDs |-> 0]
    /\ leases = {}
    /\ reaped = {}
    /\ origin = <<>>

\* the steps of ClaimService, of ExtendServices and of the sweep
RaceNext ==
    \/ \E t \in Tasks : FetchService(t)
    \/ \E t \in Tasks : ClaimLock(t)
    \/ \E t \in Tasks : SpawnCreateDeployment(t)
    \/ \E t \in Tasks : SpawnCreateService(t)
    \/ \E t \in Tasks : ClaimList(t)
    \/ \E t \in Tasks : ClaimPatchDeployment(t)
    \/ \E t \in Tasks : ClaimGetService(t)
    \/ \E t \in Tasks : ClaimPatchService(t)
    \/ \E t \in Tasks : ExtendServices(t)
    \/ \E t \in Tasks : ListStep(t)
    \/ \E t \in Tasks : ExtendPatch(t)
    \/ SweepStart
    \/ SweepList
    \/ SweepExpire
    \/ SweepPrune

RaceSpec == RaceInit /\ [][RaceNext]_vars

\* ------------------------------------------------------------- properties

\* all objects of the cluster
Objects ==
    {deployments[u] : u \in DOMAIN deployments} \cup {services[u] : u \in DOMAIN services}

\* the object is marked idle
IsIdle(o) == LableIdle \in DOMAIN o.labels /\ o.labels[LableIdle] = true

\* the object is marked claimed: no idle label, and a test id
IsClaimed(o) == LableIdle \notin DOMAIN o.labels /\ LabelTestId \in DOMAIN o.labels

\* the object carries what a claim of input, with that deadline, writes
ClaimedAs(o, input, expireAfter) ==
    /\ LableIdle \notin DOMAIN o.labels
    /\ LabelTestId \in DOMAIN o.labels
    /\ o.labels[LabelTestId] = input.testId
    /\ LabelComponentName \in DOMAIN o.labels
    /\ o.labels[LabelComponentName] = input.componentName
    /\ AnnotationExpireAfter \in DOMAIN o.annotations
    /\ o.annotations[AnnotationExpireAfter] = expireAfter

\* handler t is between the Lock and the Unlock of ClaimService
InClaimService(t) ==
    /\ req[t].op = "run"
    /\ pc[t] \in {"createDeployment", "createService", "listDeployments",
                  "patchDeployment", "getService", "patchService"}

\* handler t is inside claimDeployment, after the workload was patched
InClaimDeployment(t) == req[t].op = "run" /\ pc[t] \in {"getService", "patchService"}

\* the services that carry the uid of workload u
ServicesOf(u) ==
    {v \in DOMAIN services : services[v].labels[LableUid] = deployments[u].labels[LableUid]}

\* C1: no pair is handed out twice: over a whole behaviour, at most one
\* claim patches a workload, and at most one successful ClaimService
\* returns its service, however the claims overlap
C1_NoDoubleHandOut ==
    \A u \in UIDs : patched[u] <= 1 /\ handed[u] <= 1

\* two claims have succeeded, each with a pair of its own
C1_Witness ==
    \E u, v \in UIDs : u # v /\ handed[u] = 1 /\ handed[v] = 1

\* C2: at most one ClaimService runs on a pool id at a time: no two
\* handlers are between Lock and Unlock of ClaimService for the same pool id
C2_OneClaimPerPool ==
    \A t1, t2 \in Tasks :
        (t1 # t2 /\ InClaimService(t1) /\ InClaimService(t2))
            => req[t1].poolId # req[t2].poolId

\* C3: the workload a claim patches is the first of its sorted list, and
\* no workload that carried the labels pool-id, component-type,
\* container-name and idle=true of the request when the claim listed was
\* created before it
C3_ClaimsOldest ==
    [][\A t \in Tasks :
        /\ (pc[t] = "listDeployments" /\ pc'[t] = "patchDeployment")
              => \A u \in DOMAIN deployments :
                    Matches(deployments[u], ClaimLabels(req[t].poolId, req[t]))
                        => loc'[t].objs[1].creationTimestamp
                              <= deployments[u].creationTimestamp
        /\ (pc[t] = "patchDeployment" /\ pc'[t] = "getService")
              => loc'[t].dep.name = loc[t].objs[1].name
      ]_vars

\* a claim has patched the older of two idle workloads, which the cluster
\* listed after the newer one
C3_Witness ==
    \E t \in Tasks :
        /\ req[t].op = "run"
        /\ pc[t] = "getService"
        /\ Len(loc[t].objs) = 2
        /\ loc[t].objs[1].creationTimestamp < loc[t].objs[2].creationTimestamp
        /\ loc[t].objs[1].labels[LableUid] = UidString(2)
        /\ loc[t].objs[2].labels[LableUid] = UidString(1)

\* C4, as amended: each of the two patches of a claim leaves its object
\* without the idle label and with the claim's test id, component name and
\* deadline; the deadline is the RFC 3339 text of the claim's clock reading
\* plus expire_after, the same for both objects; when ClaimService succeeds
\* the service carries them
C4_ClaimWrites ==
    [][\A t \in Tasks :
        /\ (pc[t] = "listDeployments" /\ pc'[t] = "patchDeployment")
              => loc'[t].expireAfter = FormatRFC3339(now' + req[t].expireAfter)
        /\ (pc[t] = "patchDeployment" /\ pc'[t] = "getService")
              => /\ ClaimedAs(loc'[t].dep, req[t], loc[t].expireAfter)
                 /\ \E u \in DOMAIN deployments' : deployments'[u] = loc'[t].dep
        /\ (pc[t] = "patchService" /\ pc'[t] = "idle" /\ res'[t].status = "ok")
              => \E u \in DOMAIN services' :
                    /\ services'[u].name = loc[t].svc.name
                    /\ ClaimedAs(services'[u], req[t], loc[t].expireAfter)
                    /\ ClaimedAs(loc[t].dep, req[t],
                                 services'[u].annotations[AnnotationExpireAfter])
      ]_vars

\* a claim has succeeded, and its workload and its service carry the same
\* test id, component name and deadline
C4_Witness ==
    \E t \in Tasks, u \in DOMAIN deployments \cap DOMAIN services, input \in RunInputs :
        /\ res[t].op = "run" /\ res[t].status = "ok"
        /\ handed[u] = 1
        /\ ClaimedAs(deployments[u], input, services[u].annotations[AnnotationExpireAfter])
        /\ ClaimedAs(services[u], input, deployments[u].annotations[AnnotationExpireAfter])

\* C4, as stated: when ClaimService succeeds, the chosen workload and the
\* service both are without the idle label and carry the claim's test id,
\* component name and one equal deadline, the claim's
C4_AsStated ==
    [][\A t \in Tasks :
        (pc[t] = "patchService" /\ pc'[t] = "idle" /\ res'[t].status = "ok")
            => \A u \in DOMAIN services' :
                  services'[u].name = loc[t].svc.name
                      => /\ ClaimedAs(services'[u], req[t], loc[t].expireAfter)
                         /\ u \in DOMAIN deployments'
                               => ClaimedAs(deployments'[u], req[t], loc[t].expireAfter)
      ]_vars

\* C5, as amended: no pair has a claimed service while its workload is
\* still idle; the other half-claimed state, a claimed workload with an
\* idle service, is the only one a claim can leave behind
C5_ServiceNeverAhead ==
    \A u \in DOMAIN deployments \cap DOMAIN services :
        IsClaimed(services[u]) => ~IsIdle(deployments[u])

\* no claim is under way, and a pair is left with a claimed workload and
\* an idle service
C5_Witness ==
    /\ \A t \in Tasks : ~InClaimService(t)
    /\ \E t \in Tasks : res[t].op = "run" /\ res[t].status = "err"
    /\ \E u \in DOMAIN deployments \cap DOMAIN services :
          IsClaimed(deployments[u]) /\ IsIdle(services[u])

\* C5, as stated: once ClaimService has returned, no pair has a claimed
\* workload with an idle service, or the reverse
C5_AsStated ==
    (\A t \in Tasks : ~InClaimDeployment(t))
        => \A u \in DOMAIN deployments \cap DOMAIN services :
              /\ ~(IsClaimed(deployments[u]) /\ IsIdle(services[u]))
              /\ ~(IsIdle(deployments[u]) /\ IsClaimed(services[u]))

\* C6: an object with the label idle=true has no test-id label and no
\* component-name label
C6_IdleHasNoLease ==
    \A o \in Objects :
        IsIdle(o) => /\ LabelTestId \notin DOMAIN o.labels
                     /\ LabelComponentName \notin DOMAIN o.labels

\* an idle pair stands next to a pair that a claim has taken
C6_Witness ==
    \E u, v \in DOMAIN deployments \cap DOMAIN services :
        /\ IsIdle(deployments[u]) /\ IsIdle(services[u])
        /\ IsClaimed(deployments[v]) /\ IsClaimed(services[v])

\* C7, as amended: a workload has at most one service with its uid, and
\* that service has the workload's name
C7_AtMostOneService ==
    \A u \in DOMAIN deployments :
        /\ Cardinality(ServicesOf(u)) <= 1
        /\ \A v \in ServicesOf(u) : services[v].name = deployments[u].name

\* one workload has its service, another one has none
C7_Witness ==
    \E u, v \in DOMAIN deployments :
        /\ Cardinality(ServicesOf(u)) = 1
        /\ Cardinality(ServicesOf(v)) = 0

\* C7, as stated: every workload has exactly one service with its uid
C7_AsStated ==
    \A u \in DOMAIN deployments : Cardinality(ServicesOf(u)) = 1

\* C8: every object carries the expire-after annotation, and its value is
\* an RFC 3339 timestamp: an instant of whole seconds
C8_HasExpireAfter ==
    \A o \in Objects :
        /\ AnnotationExpireAfter \in DOMAIN o.annotations
        /\ o.annotations[AnnotationExpireAfter] % TicksPerSecond = 0
        /\ FormatRFC3339(ParseRFC3339(o.annotations[AnnotationExpireAfter]))
              = o.annotations[AnnotationExpireAfter]

\* an extension has moved the deadline of a claimed workload and is about
\* to move that of its service
C8_Witness ==
    \E t \in Tasks, u \in DOMAIN deployments \cap DOMAIN services :
        /\ pc[t] = "extPatchService"
        /\ IsClaimed(deployments[u])
        /\ deployments[u].annotations[AnnotationExpireAfter] = loc[t].expireAfter
        /\ services[u].annotations[AnnotationExpireAfter] # loc[t].expireAfter

\* C9: every label value kubrun writes is what the sanitizer makes of it
C9_LabelsSanitized ==
    \A o \in Objects :
        \A k \in DOMAIN o.labels : o.labels[k] = K8sNameString(<<o.labels[k]>>)

\* C10: when a release returns without error, after a claim of the same
\* pool id and test id has succeeded, no object of the pool carries that
\* test id
C10_ReleaseAfterClaim ==
    [][\A t \in Tasks :
        (req[t].op = "stop" /\ loc[t].after /\ pc'[t] = "idle" /\ res'[t].status = "ok")
            => \A o \in Objects' :
                  ~(/\ o.labels[LabelPoolId] = K8sNameString(<<req[t].poolId>>)
                    /\ LabelTestId \in DOMAIN o.labels
                    /\ o.labels[LabelTestId] = req[t].testId)
      ]_vars

\* the object carries the pool id and the test id of the input, sanitized
CarriesBoth(o, input) ==
    /\ o.labels[LabelPoolId] = K8sNameString(<<input.poolId>>)
    /\ LabelTestId \in DOMAIN o.labels
    /\ o.labels[LabelTestId] = K8sNameString(<<input.testId>>)

\* C11: a step of ReleaseServices with the selector {pool-id, test-id}
\* deletes only objects that carry both labels with the selector's values,
\* and changes no object that stays: idle pairs and pairs claimed under
\* another test id or in another pool are as before
C11_ReleaseFrame ==
    [][\A t \in Tasks :
        (req[t].op = "stop" /\ loc'[t] # loc[t])
            => /\ \A u \in DOMAIN deployments :
                    IF u \in DOMAIN deployments'
                    THEN deployments'[u] = deployments[u]
                    ELSE CarriesBoth(deployments[u], req[t])
               /\ \A u \in DOMAIN services :
                    IF u \in DOMAIN services'
                    THEN services'[u] = services[u]
                    ELSE CarriesBoth(services[u], req[t])
               /\ DOMAIN deployments' \subseteq DOMAIN deployments
               /\ DOMAIN services' \subseteq DOMAIN services
      ]_vars

\* a release has returned without error and has deleted the pair of its
\* test id, and a pair claimed under another test id is still there
C11_Witness ==
    /\ sweeps = 0
    /\ \E t \in Tasks : res[t].op = "stop" /\ res[t].status = "ok"
    /\ \E u \in UIDs :
          /\ handed[u] = 1
          /\ u \notin DOMAIN deployments
          /\ u \notin DOMAIN services
    /\ \E v \in DOMAIN deployments \cap DOMAIN services :
          /\ handed[v] = 1
          /\ IsClaimed(deployments[v])
          /\ IsClaimed(services[v])

\* the step ends a sweep without error
SweepCompletes == spc \notin {"run", "wait", "failed"} /\ spc' = "wait"

\* C12, as amended: when a sweep completes without error, no workload that
\* was due when it started remains, and a service that was due when it
\* started remains only if a claim or an extension has patched it since;
\* an object whose expire-after equals the time of the start is due
C12_DueAreSwept ==
    [][SweepCompletes
        => /\ \A o \in sloc.due.deployments : ~HasName(deployments', o.name)
           /\ \A o \in sloc.due.services :
                 \A u \in DOMAIN services' :
                     services'[u].name = o.name => services'[u] # o
      ]_vars

\* a sweep has gone through the workloads and the services; a workload and
\* a service were due when it started, and all that were due are gone
C12_Witness ==
    /\ spc = "prune"
    /\ sloc.due.deployments # {}
    /\ sloc.due.services # {}
    /\ \E o \in sloc.due.services :
          o.annotations[AnnotationExpireAfter] = now
    /\ \A o \in sloc.due.deployments : ~HasName(deployments, o.name)
    /\ \A o \in sloc.due.services : ~HasName(services, o.name)

\* C12, as stated: when a sweep completes without error, no workload and
\* no service that was due when it started remains
C12_AsStated ==
    [][SweepCompletes
        => /\ \A o \in sloc.due.deployments : ~HasName(deployments', o.name)
           /\ \A o \in sloc.due.services : ~HasName(services', o.name)
      ]_vars

\* the step is one of expireObjects on a listed object
SweepExamines == spc \in {"expireDeployment", "expireService"} /\ sloc' # sloc

\* the object, as the sweep has listed it, is due at time t
ListedDue(o, t) ==
    /\ AnnotationExpireAfter \in DOMAIN o.annotations
    /\ o.annotations[AnnotationExpireAfter] <= t

C14_NoSuccessOnReaped ==
    \A u \in reaped : handed[u] = 0

\* C15: when a serial WarmUp returns without error, the idle pairs of each
\* known type t of the request are n more than when it was called, n being
\* the count the request gives for t: n on an empty pool, n more on a
\* repeated call
C15_WarmUpAddsCount ==
    [][\A t \in Tasks :
        (req[t].op = "warmup" /\ pc'[t] = "idle" /\ res'[t].status = "ok")
            => \A ty \in specs \cap DOMAIN req[t].components :
                  Cardinality(IdlePairs(deployments', services', req[t].poolId, ty))
                      = loc[t].before[ty] + req[t].components[ty]
      ]_vars

\* a second warm-up of the pool has returned: two pairs from the one call
\* and one pair from the other
C15_Witness ==
    /\ ops = 2
    /\ \E t \in Tasks : /\ res[t].op = "warmup"
                        /\ res[t].status = "ok"
                        /\ res[t].poolId = <<"p">>
    /\ Cardinality(IdlePairs(deployments, services, <<"p">>, redis)) = 3

\* C16: a serial WarmUp whose request names a type missing from the catalog
\* skips that type without returning (so without an error), no workload and
\* no service of that type exists, and at the successful return the known
\* type of the same request has got its pairs
C16_UnknownTypeSkipped ==
    [][\A t \in Tasks :
        (req[t].op = "warmup" /\ nope \in DOMAIN req[t].components)
            => /\ (nope \in loc[t].todo /\ loc'[t].cur = nope)
                    => /\ pc'[t] = "warmUp"
                       /\ loc'[t].left = 0
                       /\ res' = res
                       /\ deployments' = deployments
                       /\ services' = services
               /\ \A o \in Objects' :
                    o.labels[LabelComponentType] # K8sNameString(<<nope>>)
               /\ (pc'[t] = "idle" /\ res'[t].status = "ok")
                    => Cardinality(IdlePairs(deployments', services', req[t].poolId, redis))
                          = loc[t].before[redis] + req[t].components[redis]
      ]_vars

\* a warm-up naming the unknown type has skipped it first and then spawned
\* the known type, and is about to return
C16_Witness ==
    \E t \in Tasks :
        /\ pc[t] = "warmUp"
        /\ nope \in DOMAIN req[t].components
        /\ loc[t].todo = {}
        /\ loc[t].cur = redis
        /\ loc[t].left = 0
        /\ Cardinality(IdlePairs(deployments, services, req[t].poolId, redis))
              = loc[t].before[redis] + 1

\* C17: the step in which a spawn of a WarmUp fails is the return of the
\* WarmUp with the error: the handler is idle again with nothing left to
\* spawn, and no workload and no service is deleted or changed by it, the
\* workload whose service could not be created included
C17_WarmUpFailureKeepsObjects ==
    [][\A t \in Tasks :
        (req[t].op = "warmup" /\ req'[t] # req[t] /\ res'[t].status = "err")
            => /\ pc[t] \in {"createDeployment", "createService"}
               /\ pc'[t] = "idle"
               /\ req'[t] = NoReq
               /\ loc'[t] = NoLoc
               /\ deployments' = deployments
               /\ services' = services
      ]_vars

\* the only operation so far was a warm-up of two replicas that failed at
\* the second service: the first pair and the second workload are there
C17_Witness ==
    /\ ops = 1
    /\ \E t \in Tasks : res[t].op = "warmup" /\ res[t].status = "err"
    /\ \A t \in Tasks : pc[t] = "idle"
    /\ \E u \in DOMAIN deployments : u \in DOMAIN services
    /\ \E u \in DOMAIN deployments : u \notin DOMAIN services

\* C18: when an ExtendServices returns without error, after a claim of the
\* same pool id and test id has succeeded, every workload and every service
\* of the pool that carries that test id has the expire-after the
\* extension computed, the time of the call plus its duration
C18_ExtendSetsAll ==
    [][\A t \in Tasks :
        (req[t].op = "extend" /\ loc[t].after /\ pc'[t] = "idle" /\ res'[t].status = "ok")
            => \A o \in Objects' :
                  (/\ o.labels[LabelPoolId] = K8sNameString(<<req[t].poolId>>)
                   /\ LabelTestId \in DOMAIN o.labels
                   /\ o.labels[LabelTestId] = req[t].testId)
                      => /\ AnnotationExpireAfter \in DOMAIN o.annotations
                         /\ o.annotations[AnnotationExpireAfter] = loc[t].expireAfter
      ]_vars

\* C19: when a serial ShutdownPool(p) returns without error, no workload
\* and no service that was spawned for pool p is in the cluster
C19_ShutdownRemovesPool ==
    [][\A t \in Tasks :
        (req[t].op = "shutdown" /\ pc'[t] = "idle" /\ res'[t].status = "ok")
            => \A u \in DOMAIN deployments' \cup DOMAIN services' :
                  origin[u] # req[t].poolId
      ]_vars

\* C20: when a serial sweep completes, every pool id that was shut down
\* without error, and on which no operation has run since, is absent from
\* the registry
C20_ShutPoolPruned ==
    [][SweepCompletes
          => \A t \in Tasks : \A p \in res[t].shut : p \notin DOMAIN pools'
      ]_vars

\* C21: the sweep takes a pool id from the registry only when no service
\* that was spawned for that pool id is in the cluster
C21_PrunedPoolHasNoService ==
    [][spc = "prune"
          => \A p \in DOMAIN pools \ DOMAIN pools' :
                \A u \in DOMAIN services : origin[u] # p
      ]_vars

\* C22: the manager mutex is not held while a cluster call is in progress:
\* neither a handler nor the sweep is at a list, get, create, patch or
\* delete with the mutex in its hands
C22_NoCallUnderManagerLock ==
    /\ mgrLck = Sweeper
          => spc \notin {"listServices", "expireDeployment", "expireService", "prune"}
    /\ \A t \in Tasks : mgrLck = t => pc[t] \in {"idle", "lock", "warmUp"}

\* C24: no ClaimService ends in a crash: when its list of idle workloads is
\* empty it returns an error value instead of indexing the list
C24_ClaimNeverPanics ==
    \A t \in Tasks : res[t].status # "panic"

\* C23: a claim does not return a write conflict to its caller: when the
\* cluster answers a patch of the claim with a conflict and would accept the
\* patch on a second attempt, the patch is sent again and the claim succeeds
C23_ConflictIsRetried ==
    \A t \in Tasks : ~(res[t].op = "run" /\ res[t].status = "conflict")

\* what the client has seen is the second end-to-end scenario: a warm-up of
\* two redis replicas, a warm-up of one more, and a successful claim of a
\* redis service, on a pool that was empty, and nothing else
Scenario2(done) ==
    /\ Len(done) = 3
    /\ \A i \in 1..3 : done[i].status = "ok" /\ done[i].poolId = <<"p">>
    /\ done[1].op = "warmup" /\ done[1].components[redis] = 2
    /\ done[2].op = "warmup" /\ done[2].components[redis] = 1
    /\ done[3].op = "run"

\* C25: after a warm-up of two redis replicas, a warm-up of one more and
\* one successful claim, all on a pool that was empty, three idle redis
\* pairs are in the pool: the three of the warm-ups and the one the claim
\* has spawned, less the one it has taken
C25_ThreeIdleRemain ==
    \A t \in Tasks :
        Scenario2(res[t].done)
            => Cardinality(IdlePairs(deployments, services, <<"p">>, redis)) = 3

\* the three operations of the scenario have returned
C25_Witness ==
    /\ \E t \in Tasks : Scenario2(res[t].done)
    /\ Cardinality(DOMAIN deployments) = 4
    /\ \E u \in DOMAIN deployments : handed[u] = 1

\* C25, as stated: exactly two idle redis pairs remain
C25_AsStated ==
    \A t \in Tasks :
        Scenario2(res[t].done)
            => Cardinality(IdlePairs(deployments, services, <<"p">>, redis)) = 2

\* C26: the workload and the service of a spawn have the same object name,
\* and the GetService by the workload's name in a claim finds a service with
\* that name whose uid label is the uid label of the workload
C26_PairSharesName ==
    [][/\ \A u \in DOMAIN deployments' \cap DOMAIN services' :
              deployments'[u].name = services'[u].name
       /\ \A t \in Tasks :
              (pc[t] = "getService" /\ pc'[t] = "patchService")
                  => /\ loc'[t].svc.name = loc[t].dep.name
                     /\ loc'[t].svc.labels[LableUid] = loc[t].dep.labels[LableUid]
      ]_vars

\* a claim has got the service of its workload by name, with two pairs in
\* the cluster
C26_Witness ==
    \E t \in Tasks :
        /\ pc[t] = "patchService"
        /\ loc[t].svc.labels[LableUid] = loc[t].dep.labels[LableUid]
        /\ Cardinality(DOMAIN deployments \cap DOMAIN services) = 2

\* C27: every object name the factory produces is a fixed point of the
\* sanitizer and consists of characters of [a-z0-9-] only, at least one,
\* whatever strings the input holds
C27_NameIsSanitized ==
    \A o \in Objects :
        /\ K8sNameString(<<o.name>>) = o.name
        /\ Len(o.name) > 0
        /\ \A i \in 1..Len(o.name) : o.name[i] \in NameChars

\* a pair was spawned for an input with an upper-case letter and with runs
\* of characters outside the class
C27_Witness ==
    /\ req[1].poolId = <<"A", "_">>
    /\ req[1].componentType = <<"_", "_">>
    /\ req[1].containerName = <<"0", "A">>
    /\ DOMAIN deployments # {}
    /\ DOMAIN services # {}

\* C28: the worker leaves the start of Run only by beginning a sweep, and
\* leaves its wait only by beginning a sweep (a tick was received) or by
\* returning (the context was cancelled); a sweep begins only while no
\* sweep is in progress, and one at a time
C28_SweepsInTurn ==
    [][/\ (spc = "run" /\ spc' # "run") => sweeps' = sweeps + 1
       /\ (spc \in {"wait", "failed"} /\ spc' \notin {"wait", "failed"})
              => (sweeps' = sweeps + 1 \/ spc' = "done")
       /\ sweeps' # sweeps
              => /\ sweeps' = sweeps + 1
                 /\ spc \in {"run", "wait", "failed"}
                 /\ sloc = NoSloc
                 /\ spc' \in {"listServices", "expireDeployment"}
      ]_vars

\* the second sweep, begun on a tick after the first has completed, is at
\* work on a listed object
C28_Witness ==
    /\ sweeps = 2
    /\ spc \in {"expireDeployment", "expireService"}
    /\ \A t \in Tasks : \A i \in 1..Len(res[t].done) : res[t].done[i].op # "restart"

\* C29: a sweep, failed or not, ends in the wait for the next tick; after a
\* failed sweep the worker can begin the next one; and Run returns only
\* from that wait, when the context is cancelled
C29_ErrorsStayInLoop ==
    /\ [](( /\ spc = "failed"
            /\ sweeps < env.maxSweeps
            /\ \A t \in Tasks : pc[t] = "idle" ) => ENABLED SweepStart)
    /\ [][/\ ( /\ spc \in {"listServices", "expireDeployment", "expireService", "prune"}
               /\ spc' \notin {"listServices", "expireDeployment", "expireService", "prune"} )
                 => spc' \in {"wait", "failed"}
          /\ (spc # "done" /\ spc' = "done")
                 => spc \in {"wait", "failed"}
         ]_vars

\* no request was served, the first sweep has failed at a cluster call, and
\* the sweep of the next tick is running
C29_Witness ==
    /\ ops = 0
    /\ fails = 1
    /\ sweeps = 2
    /\ spc = "listServices"

\* the process was started again at some point of the client's trail
Restarted == \E t \in Tasks : \E i \in 1..Len(res[t].done) : res[t].done[i].op = "restart"

\* the client's trail is a warm-up, a restart of the process, and a
\* successful claim
WarmRestartClaim(done) ==
    /\ Len(done) = 3
    /\ done[1].op = "warmup" /\ done[1].status = "ok"
    /\ done[2].op = "restart"
    /\ done[3].op = "run" /\ done[3].status = "ok"

\* C30: the registry of the process does not decide what a claim and a
\* sweep do to the cluster.  A claim that follows a warm-up and a restart
\* of the process is handed one of the pairs the warm-up had spawned, not
\* the pair it has spawned itself; and when a sweep of a restarted process
\* completes, no workload and no service that was due at its start remains
C30_RegistryFree ==
    /\ [](\A t \in Tasks :
            WarmRestartClaim(res[t].done)
                => /\ \E u \in 1..res[t].done[1].components[redis] : handed[u] = 1
                   /\ \A u \in UIDs : u > res[t].done[1].components[redis] => handed[u] = 0)
    /\ [][(SweepCompletes /\ Restarted)
            => /\ \A o \in sloc.due.deployments : ~HasName(deployments', o.name)
               /\ \A o \in sloc.due.services : ~HasName(services', o.name)
         ]_vars

\* after a warm-up and a restart a claim was handed a pair of the warm-up;
\* the sweep that followed has deleted the claimed workload, which was due,
\* and is at the services
C30_Witness ==
    /\ \E t \in Tasks : WarmRestartClaim(res[t].done)
    /\ spc = "expireService"
    /\ sloc.due.deployments # {}
    /\ \A o \in sloc.due.deployments : ~HasName(deployments, o.name)
    /\ \E u \in UIDs : handed[u] = 1 /\ u \notin DOMAIN deployments /\ u \in DOMAIN services

\* the deadline of every object with uid u is within the bound of the clock
DueByTheEnd(u) ==
    /\ u \in DOMAIN deployments =>
          /\ AnnotationExpireAfter \in DOMAIN deployments[u].annotations
          /\ ParseRFC3339(deployments[u].annotations[AnnotationExpireAfter]) <= env.maxTime
    /\ u \in DOMAIN services =>
          /\ AnnotationExpireAfter \in DOMAIN services[u].annotations
          /\ ParseRFC3339(services[u].annotations[AnnotationExpireAfter]) <= env.maxTime

\* no operation is in progress and none will come; a workload or a service
\* with uid u is in the cluster, and no successful claim has returned it:
\* it is an idle pair, a workload without its service, or a pair whose
\* claim has stopped half-way
LeftBehind(u) ==
    /\ ops = env.maxOps
    /\ \A t \in Tasks : pc[t] = "idle"
    /\ u \in DOMAIN deployments \cup DOMAIN services
    /\ handed[u] = 0
    /\ DueByTheEnd(u)

\* C31: a workload or a service that an operation has left behind, and that
\* no later operation touches, is deleted in the end, if the worker keeps
\* sweeping and the clock gets to its deadline
C31_LeftoversAreSwept ==
    \A u \in 1..LiveMaxUid :
        LeftBehind(u) ~> (u \notin DOMAIN deployments \cup DOMAIN services)

\* a claim was cancelled after it had patched the workload; a sweep has
\* deleted the claimed workload and its idle service; and the sweep has
\* deleted the workload and the service of an idle pair
C31_Witness ==
    /\ \E t \in Tasks : res[t].op = "run" /\ res[t].status = "err"
    /\ \E u \in 1..LiveMaxUid :
          /\ patched[u] = 1 /\ handed[u] = 0
          /\ u \notin DOMAIN deployments \cup DOMAIN services
    /\ \E u \in reaped : u \notin DOMAIN services
    /\ sweeps = env.maxSweeps

\* the idle pairs of the pool and the component type of the request of t
IdleOfRequest(t, deps, svcs) ==
    Cardinality(IdlePairs(deps, svcs, req[t].poolId, req[t].componentType))

\* C32: a claim does not drain the pool.  With one operation at a time, a
\* ClaimService that is at its list has spawned one pair, which is idle and
\* is its own, so that the pool has one idle pair more than when the claim
\* arrived; and when the claim returns without error the pool has as many
\* idle pairs of the requested type as when it arrived
C32_ClaimRefills ==
    [][\A t \in Tasks :
        /\ (req[t].op = "run" /\ pc[t] = "createService" /\ pc'[t] = "listDeployments")
              => /\ IdleOfRequest(t, deployments', services') = loc[t].before[req[t].componentType] + 1
                 /\ loc[t].uid \in IdlePairs(deployments', services', req[t].poolId,
                                              req[t].componentType)
                 /\ loc[t].uid \notin DOMAIN services
        /\ (req[t].op = "run" /\ pc'[t] = "idle" /\ res'[t].status = "ok")
              => IdleOfRequest(t, deployments', services') = loc[t].before[req[t].componentType]
      ]_vars

\* after a warm-up of two replicas a claim has returned without error: one
\* pair is handed out and two idle pairs are in the pool
C32_Witness ==
    /\ \E t \in Tasks : res[t].op = "run" /\ res[t].status = "ok" /\ res[t].poolId = <<"p">>
    /\ \E u \in DOMAIN deployments : handed[u] = 1
    /\ Cardinality(IdlePairs(deployments, services, <<"p">>, redis)) = 2
    /\ Cardinality(DOMAIN deployments) = 3

\* handler t is at the spawn with which ClaimService begins
InClaimSpawn(t) ==
    req[t].op = "run" /\ pc[t] \in {"lock", "createDeployment", "createService"}

\* C33: a step of a claim that is at its spawn changes and deletes no object
\* that is in the cluster; and the step in which a call of the spawn fails
\* is the return of ClaimService with the error: the claim does not get to
\* its list, and no workload and no service is patched
C33_SpawnFailureReturns ==
    [][\A t \in Tasks :
        (InClaimSpawn(t) /\ pc'[t] # pc[t])
            => /\ \A u \in DOMAIN deployments :
                    u \in DOMAIN deployments' /\ deployments'[u] = deployments[u]
               /\ \A u \in DOMAIN services :
                    u \in DOMAIN services' /\ services'[u] = services[u]
               /\ patched' = patched
               /\ handed' = handed
               /\ (fails' # fails \/ pc'[t] = "idle")
                    => /\ pc'[t] = "idle"
                       /\ res'[t].op = "run"
                       /\ res'[t].status = "err"
                       /\ deployments' = deployments
                       /\ services' = services
      ]_vars

\* the pool had an idle pair; a claim has failed at the service of its spawn
\* and has returned; the idle pair is as it was, and no workload was patched
C33_Witness ==
    /\ ops = 2
    /\ \E t \in Tasks : res[t].op = "run" /\ res[t].status = "err"
    /\ \A t \in Tasks : pc[t] = "idle"
    /\ \A u \in UIDs : patched[u] = 0
    /\ Cardinality(IdlePairs(deployments, services, <<"p">>, redis)) = 1
    /\ \E u \in DOMAIN deployments : u \notin DOMAIN services

\* the step is one of the expiry worker
SweeperSteps == << spc, sloc >>' # << spc, sloc >>

\* the object the sweep is at is due at the time of the step, and is not in
\* the cluster any more: its delete fails
DeleteFails ==
    /\ spc \in {"expireDeployment", "expireService"}
    /\ SweeperSteps
    /\ ~SweepSkips(Head(sloc.objs), now')
    /\ ~HasName(IF spc = "expireDeployment" THEN deployments ELSE services,
                Head(sloc.objs).name)

DeadlinePassed(o, t) ==
    /\ AnnotationExpireAfter \in DOMAIN o.annotations
    /\ ParseRFC3339(o.annotations[AnnotationExpireAfter]) <= t

\* C35: the sweep does not delete a claimed pair before its deadline.  When
\* a ClaimService returns without error, the sweep has not deleted the
\* workload of the returned service from a list taken before the claim's
\* patch, unless the deadline of the claim has passed; and the sweep deletes
\* a workload or a service that a claim has patched only when the deadline
\* the object carries at that time (the claim's, or that of a later
\* extension) has passed
C35_ClaimedNotSweptEarly ==
    [][/\ \A t \in Tasks :
            (req[t].op = "run" /\ pc'[t] = "idle" /\ res'[t].status = "ok")
                => \A u \in reaped :
                      (u \in DOMAIN services /\ services[u].name = loc[t].svc.name)
                          => loc[t].expireAfter <= now
       /\ SweepExamines
            => /\ \A u \in DOMAIN deployments \ DOMAIN deployments' :
                    IsClaimed(deployments[u]) => DeadlinePassed(deployments[u], now')
               /\ \A u \in DOMAIN services \ DOMAIN services' :
                    IsClaimed(services[u]) => DeadlinePassed(services[u], now')
      ]_vars

\* the step is one of handler t, inside an operation
HandlerSteps(t) == req[t].op # "none" /\ (pc'[t] # pc[t] \/ loc'[t] # loc[t])

\* C36: an operation on pool id p touches the pairs of p only: every
\* workload and every service that a step of a claim, a release, a shutdown
\* or an extension patches or deletes was spawned for the pool id of that
\* request, also when another pool id differs from it only in the case of a
\* letter
C36_PoolsAreApart ==
    [][\A t \in Tasks :
        HandlerSteps(t)
            => /\ \A u \in DOMAIN deployments :
                    (u \notin DOMAIN deployments' \/ deployments'[u] # deployments[u])
                        => origin[u] = req[t].poolId
               /\ \A u \in DOMAIN services :
                    (u \notin DOMAIN services' \/ services'[u] # services[u])
                        => origin[u] = req[t].poolId
      ]_vars

\* C37: no deadlock.  A handler never holds the manager mutex from one
\* step to the next, and holds no pool mutex while it is idle (where it
\* waits for the manager mutex, and where it is after every return) or
\* waits for a pool mutex; a handler that waits for a pool mutex can take
\* it, or its holder is inside ClaimService, past the Lock, and can take a
\* step; the worker holds the manager mutex only in the pruning loop, where
\* it can take a step; and no step of the worker touches a pool mutex
C37_NoDeadlock ==
    /\ [](\A t \in Tasks :
            /\ mgrLck # t
            /\ pc[t] \in {"idle", "lock"}
                  => \A o \in DOMAIN poolObjs : poolObjs[o].lck # t
            /\ pc[t] = "lock"
                  => \/ poolObjs[pool[t]].lck = 0 /\ ENABLED ClaimLock(t)
                     \/ \E t2 \in Tasks \ {t} :
                            /\ poolObjs[pool[t]].lck = t2
                            /\ InClaimService(t2)
                            /\ ENABLED HandlerStep(t2))
    /\ [](mgrLck = Sweeper => (spc = "prune" /\ ENABLED SweepPrune))
    /\ [][SweeperSteps => \A o \in DOMAIN poolObjs' : poolObjs'[o] = poolObjs[o]]_vars

\* a claim holds the mutex of the pool, a second claim of the pool waits for
\* it, and the worker holds the manager mutex in its pruning loop
C37_Witness ==
    /\ mgrLck = Sweeper
    /\ \E t, t2 \in Tasks :
          /\ pc[t] = "lock"
          /\ poolObjs[pool[t]].lck = t2
          /\ InClaimService(t2)

====
